---------------------------- MODULE Spec2Model ----------------------------
(***************************************************************************)
(* A model of turndown.cpp, the HTML to Markdown converter: the whitespace *)
(* collapse walk, the rule set and its precedence, the reducer with its    *)
(* chunk joiner, the CommonMark rules the properties below are about, and  *)
(* the TurndownService facade with its cached rule set.                    *)
(*                                                                         *)
(* Strings are sequences of one-character strings.  A DOM tree is a record *)
(* [size, kind, parent]: node 0 is the root the conversion is started on,  *)
(* nodes 1..size are its descendants, the children of a node are ordered   *)
(* by their number.  Null (-1) is the empty NodeView.                      *)
(***************************************************************************)
EXTENDS Integers, Sequences, FiniteSets, TLC

VARIABLES
    tree,      \* the DOM tree handed to collapseWhitespace
    treatCodeAsPre, \* collapseWhitespace's flag (options.preformattedCode)
    walk,      \* the locals of collapseWhitespace and its result so far
    args,      \* the arguments of a call of one of the functions
    ret,       \* [called, value]: what that call returned
    svc,       \* a TurndownService: options_, rules_, the factories, ruleMutations_
    gCollapse, \* the collapse context of utilities.cpp
    conv,      \* the last conversion call: its inputs and how it ended
    log,       \* what was called so far: the rules added, the conversions returned
    movedFromIsEmpty, \* whether the build empties an std::function moved from
    ruleSet,   \* a Rules object
    threads    \* the conversions that run at the same time, one per thread

collapseVars == <<tree, treatCodeAsPre, walk>>
callVars == <<args, ret>>
serviceVars == <<svc, gCollapse, conv, log, movedFromIsEmpty>>

vars == <<tree, treatCodeAsPre, walk, args, ret, svc, gCollapse, conv, log,
          movedFromIsEmpty, ruleSet, threads>>

---------------------------------------------------------------------------
(* Bounds of the model *)

\* the largest number of nodes below the root of a tree the walk is run on
MaxNodes == 3

\* the longest chunk handed to joinChunks
MaxJoinLen == 4

\* the number of calls made on one TurndownService
MaxCalls == 4

---------------------------------------------------------------------------
(* Characters and strings *)

Null == -1

SP == " "
LF == "\n"
CR == "\r"
TAB == "\t"
FF == "\f"
BSL == "\\"
\* the grave accent, 0x60
BackTick == "<60>"

\* The two bytes of the UTF-8 encoding of U+00A0, one token per byte.
ByteC2 == "<C2>"
ByteA0 == "<A0>"

Last(s) == s[Len(s)]
Front(s) == SubSeq(s, 1, Len(s) - 1)

Min(a, b) == IF a < b THEN a ELSE b
Max(a, b) == IF a > b THEN a ELSE b

---------------------------------------------------------------------------
(* DOM nodes *)

Elem(tag) == [type |-> "Element", tag |-> tag, text |-> <<>>,
              href |-> <<>>, start |-> <<>>]
Txt(s) == [type |-> "Text", tag |-> "", text |-> s,
           href |-> <<>>, start |-> <<>>]
Cmt == [type |-> "Comment", tag |-> "", text |-> <<"c">>,
        href |-> <<>>, start |-> <<>>]

Nodes(t) == 0..t.size

is_element(t, n) == n # Null /\ t.kind[n].type = "Element"
is_text_like(t, n) ==
    n # Null /\ t.kind[n].type \in {"Text", "Whitespace", "CData"}
tag_name(t, n) == t.kind[n].tag

parent(t, n) == IF n = Null \/ n = 0 THEN Null ELSE t.parent[n]

ChildrenOf(t, n) == {c \in 1..t.size : t.parent[c] = n}

SetMin(S) == CHOOSE x \in S : \A y \in S : x <= y
SetMax(S) == CHOOSE x \in S : \A y \in S : y <= x

first_child(t, n) ==
    IF n = Null \/ ChildrenOf(t, n) = {} THEN Null
    ELSE SetMin(ChildrenOf(t, n))

next_sibling(t, n) ==
    IF n = Null \/ n = 0 THEN Null
    ELSE LET later == {c \in ChildrenOf(t, t.parent[n]) : c > n}
         IN IF later = {} THEN Null ELSE SetMin(later)

kBlockTags ==
    {"address", "article", "aside", "audio", "blockquote", "body", "canvas",
     "center", "dd", "dir", "div", "dl", "dt", "fieldset", "figcaption",
     "figure", "footer", "form", "frameset", "h1", "h2", "h3", "h4", "h5",
     "h6", "header", "hgroup", "hr", "html", "isindex", "li", "main", "menu",
     "nav", "noframes", "noscript", "ol", "output", "p", "pre", "section",
     "table", "tbody", "td", "tfoot", "th", "thead", "tr", "ul"}

kVoidTags ==
    {"area", "base", "br", "col", "command", "embed", "hr", "img", "input",
     "keygen", "link", "meta", "param", "source", "track", "wbr"}

isBlock(t, n) == is_element(t, n) /\ tag_name(t, n) \in kBlockTags
isVoid(t, n) == is_element(t, n) /\ tag_name(t, n) \in kVoidTags

\* The trees with at most maxN nodes below a root of kind rootKind, the
\* nodes drawn from kinds: only an element that is not void has children.
ParentFns(n) == {f \in [1..n -> 0..(n - 1)] : \A i \in 1..n : f[i] < i}

TreesWith(rootKind, n, k) ==
    {[size |-> n, kind |-> [i \in 0..n |-> IF i = 0 THEN rootKind ELSE k[i]],
      parent |-> p] :
        p \in {f \in ParentFns(n) :
                 \A i \in 1..n :
                    f[i] # 0 =>
                      /\ k[f[i]].type = "Element"
                      /\ k[f[i]].tag \notin kVoidTags}}

TreesOver(rootKind, kinds, maxN) ==
    UNION {UNION {TreesWith(rootKind, n, k) : k \in [1..n -> kinds]}
           : n \in 0..maxN}

---------------------------------------------------------------------------
(* collapse_whitespace.cpp *)

isPreNode(t, n, codeAsPre) ==
    /\ is_element(t, n)
    /\ \/ tag_name(t, n) = "pre"
       \/ codeAsPre /\ tag_name(t, n) = "code"

\* a traversal that goes into the children of a preformatted element
nextNode_Descends(t, prev, current, codeAsPre) ==
    IF current = Null THEN Null
    ELSE IF prev # Null /\ parent(t, prev) = current
         THEN IF next_sibling(t, current) # Null
              THEN next_sibling(t, current)
              ELSE parent(t, current)
         ELSE IF first_child(t, current) # Null
              THEN first_child(t, current)
              ELSE IF next_sibling(t, current) # Null
                   THEN next_sibling(t, current)
                   ELSE parent(t, current)

nextNode(t, prev, current, codeAsPre) ==
    IF current = Null THEN Null
    ELSE LET prevIsParent == prev # Null /\ parent(t, prev) = current
         IN IF prevIsParent \/ isPreNode(t, current, codeAsPre)
            THEN IF next_sibling(t, current) # Null
                 THEN next_sibling(t, current)
                 ELSE parent(t, current)
            ELSE IF first_child(t, current) # Null
                 THEN first_child(t, current)
                 ELSE IF next_sibling(t, current) # Null
                      THEN next_sibling(t, current)
                      ELSE parent(t, current)

afterRemoval(t, node) ==
    IF node = Null THEN Null
    ELSE IF next_sibling(t, node) # Null THEN next_sibling(t, node)
         ELSE parent(t, node)

\* std::regex_replace(text, std::regex("[ \\r\\n\\t]+"), " ")
RECURSIVE DropLeadingRun(_)
DropLeadingRun(s) ==
    IF s # <<>> /\ Head(s) \in {SP, CR, LF, TAB}
    THEN DropLeadingRun(Tail(s))
    ELSE s

\* a collapse that leaves the text as it is
CollapseRuns_Untouched(s) == s

RECURSIVE CollapseRuns(_)
CollapseRuns(s) ==
    IF s = <<>> THEN <<>>
    ELSE IF Head(s) \in {SP, CR, LF, TAB}
         THEN <<SP>> \o CollapseRuns(DropLeadingRun(s))
         ELSE <<Head(s)>> \o CollapseRuns(Tail(s))

MapPut(f, k, v) == [x \in (DOMAIN f) \cup {k} |-> IF x = k THEN v ELSE f[x]]

EmptyMap == [x \in {} |-> <<>>]

\* The lookup the walk does before it reads or pops the previous text
\* node's replacement: found, not empty, ends with a space.
EndsWithSpaceIn(reps, node) ==
    /\ node \in DOMAIN reps
    /\ reps[node] # <<>>
    /\ Last(reps[node]) = SP

\* a walk that leaves the trailing space of prevTextNode's replacement
StripTrailing_Keeps(w) == w

\* Removes the trailing space of prevTextNode's replacement, and omits the
\* node when that empties it (the block / br branch and the walk's end).
StripTrailing(w) ==
    IF w.prevTextNode # Null /\ EndsWithSpaceIn(w.textReplacements, w.prevTextNode)
    THEN LET popped == Front(w.textReplacements[w.prevTextNode])
         IN [w EXCEPT
                !.textReplacements = MapPut(@, w.prevTextNode, popped),
                !.nodesToOmit = IF popped = <<>> THEN @ \cup {w.prevTextNode} ELSE @]
    ELSE w

\* collapseWhitespace up to its loop: the guard, the locals, the first node.
WalkStart(t, codeAsPre) ==
    LET guard == isPreNode(t, 0, codeAsPre) \/ first_child(t, 0) = Null
    IN [currentNode |-> IF guard THEN Null ELSE nextNode(t, Null, 0, codeAsPre),
        prevNode |-> Null,
        prevTextNode |-> Null,
        keepLeadingWhitespace |-> FALSE,
        textReplacements |-> EmptyMap,
        nodesToOmit |-> {},
        pc |-> IF guard THEN "done" ELSE "loop"]

LoopCondition(w) == w.currentNode # Null /\ w.currentNode # 0

\* a text branch that clears keepLeadingWhitespace when it stores a text
TextBranch_ClearsKeepLeading(t, codeAsPre, w) ==
    LET cur == w.currentNode
        collapsed == CollapseRuns(t.kind[cur].text)
        text == IF /\ (w.prevTextNode = Null
                        \/ EndsWithSpaceIn(w.textReplacements, w.prevTextNode))
                   /\ ~w.keepLeadingWhitespace
                   /\ collapsed # <<>>
                   /\ Head(collapsed) = SP
                THEN Tail(collapsed)
                ELSE collapsed
    IN IF text = <<>>
       THEN [w EXCEPT !.nodesToOmit = @ \cup {cur},
                      !.currentNode = afterRemoval(t, cur)]
       ELSE [w EXCEPT !.textReplacements = MapPut(@, cur, text),
                      !.prevTextNode = cur,
                      !.keepLeadingWhitespace = FALSE,
                      !.currentNode = nextNode(t, w.prevNode, cur, codeAsPre),
                      !.prevNode = cur]

\* A text-like node.
TextBranch(t, codeAsPre, w) ==
    LET cur == w.currentNode
        collapsed == CollapseRuns(t.kind[cur].text)
        prevEndedWithSpace ==
            w.prevTextNode # Null /\ EndsWithSpaceIn(w.textReplacements, w.prevTextNode)
        text == IF /\ (w.prevTextNode = Null \/ prevEndedWithSpace)
                   /\ ~w.keepLeadingWhitespace
                   /\ collapsed # <<>>
                   /\ Head(collapsed) = SP
                THEN Tail(collapsed)
                ELSE collapsed
    IN IF text = <<>>
       THEN [w EXCEPT !.nodesToOmit = @ \cup {cur},
                      !.currentNode = afterRemoval(t, cur)]
       ELSE [w EXCEPT !.textReplacements = MapPut(@, cur, text),
                      !.prevTextNode = cur,
                      !.currentNode = nextNode(t, w.prevNode, cur, codeAsPre),
                      !.prevNode = cur]

\* an element branch whose last case clears keepLeadingWhitespace without
\* asking for prevTextNode
ElementBranch_InlineClears(t, codeAsPre, w) ==
    LET cur == w.currentNode
        visited ==
            IF isBlock(t, cur) \/ tag_name(t, cur) = "br"
            THEN [StripTrailing(w) EXCEPT !.prevTextNode = Null,
                                          !.keepLeadingWhitespace = FALSE]
            ELSE IF isVoid(t, cur) \/ isPreNode(t, cur, codeAsPre)
                 THEN [w EXCEPT !.prevTextNode = Null,
                                !.keepLeadingWhitespace = TRUE]
                 ELSE [w EXCEPT !.keepLeadingWhitespace = FALSE]
    IN [visited EXCEPT !.currentNode = nextNode(t, w.prevNode, cur, codeAsPre),
                       !.prevNode = cur]

\* An element.
ElementBranch(t, codeAsPre, w) ==
    LET cur == w.currentNode
        blockLike == isBlock(t, cur)
        isBr == tag_name(t, cur) = "br"
        preNode == isPreNode(t, cur, codeAsPre)
        voidNode == isVoid(t, cur)
        visited ==
            IF blockLike \/ isBr
            THEN [StripTrailing(w) EXCEPT !.prevTextNode = Null,
                                          !.keepLeadingWhitespace = FALSE]
            ELSE IF voidNode \/ preNode
                 THEN [w EXCEPT !.prevTextNode = Null,
                                !.keepLeadingWhitespace = TRUE]
                 ELSE IF w.prevTextNode # Null
                      THEN [w EXCEPT !.keepLeadingWhitespace = FALSE]
                      ELSE w
    IN [visited EXCEPT !.currentNode = nextNode(t, w.prevNode, cur, codeAsPre),
                       !.prevNode = cur]

\* A node of any other type (a comment).
OtherBranch(t, w) ==
    [w EXCEPT !.nodesToOmit = @ \cup {w.currentNode},
              !.currentNode = afterRemoval(t, w.currentNode)]

\* an iteration that takes a void element for a node of another type
WalkIteration_VoidAsOther(t, codeAsPre, w) ==
    IF is_text_like(t, w.currentNode) THEN TextBranch(t, codeAsPre, w)
    ELSE IF is_element(t, w.currentNode) /\ ~isVoid(t, w.currentNode)
         THEN ElementBranch(t, codeAsPre, w)
    ELSE OtherBranch(t, w)

\* One iteration of the loop of collapseWhitespace.
WalkIteration(t, codeAsPre, w) ==
    IF is_text_like(t, w.currentNode) THEN TextBranch(t, codeAsPre, w)
    ELSE IF is_element(t, w.currentNode) THEN ElementBranch(t, codeAsPre, w)
    ELSE OtherBranch(t, w)

\* The end of the walk: the last prevTextNode loses its trailing space.
WalkEnd(w) == [StripTrailing(w) EXCEPT !.pc = "done"]

\* an iteration that writes the collapsed text into the text node it stores
TreeAfterIteration_StoresText(t, codeAsPre, w) ==
    LET cur == w.currentNode
        after == WalkIteration(t, codeAsPre, w)
    IN IF is_text_like(t, cur) /\ after.prevTextNode = cur
       THEN [t EXCEPT !.kind[cur].text = after.textReplacements[cur]]
       ELSE t

\* The tree after one iteration of the loop.  The loop reads the tree
\* through const members of NodeView (text_content copies the text into a
\* std::string) and writes to result and to its locals only.
TreeAfterIteration(t, codeAsPre, w) == t

---------------------------------------------------------------------------
(* utilities.cpp: code points, trimming, escaping *)

\* utf8::isAsciiLead, utf8::expectedLength and utf8::isContinuation on the
\* bytes of the model: every one-character token is ASCII, 0xC2 leads a
\* two-byte sequence, 0xA0 is a continuation byte.
isAsciiLead(byte) == byte \notin {ByteC2, ByteA0}
expectedLength(lead) == IF lead = ByteC2 THEN 2 ELSE 1
isContinuation(byte) == byte = ByteA0

\* A code point is named by its ASCII character or by its U+ number.
LeadAsCodepoint(lead) ==
    IF lead = ByteC2 THEN "U+00C2"
    ELSE IF lead = ByteA0 THEN "U+00A0"
    ELSE lead

\* decode_one: positions are 1-based.
decode_one(text, i) ==
    LET lead == text[i]
        single == [codepoint |-> LeadAsCodepoint(lead), start |-> i, length |-> 1]
    IN IF isAsciiLead(lead) THEN single
       ELSE IF expectedLength(lead) = 1 \/ i + expectedLength(lead) - 1 > Len(text)
            THEN single
            ELSE IF ~isContinuation(text[i + 1]) THEN single
                 ELSE [codepoint |-> "U+00A0", start |-> i, length |-> 2]

RECURSIVE decodeFrom(_, _)
decodeFrom(text, i) ==
    IF i > Len(text) THEN <<>>
    ELSE LET decoded == decode_one(text, i)
         IN <<decoded>> \o decodeFrom(text, i + decoded.length)

decodeUtf8(text) == decodeFrom(text, 1)

\* 0x20 and 0x09..0x0D (vertical tab has no token in the model)
isAsciiWhitespaceCodePoint(cp) == cp \in {SP, TAB, LF, FF, CR}

isUnicodeWhitespace(cp) ==
    isAsciiWhitespaceCodePoint(cp) \/ cp \in {"U+0085", "U+00A0"}

\* bool isAsciiWhitespace(char c)
isAsciiWhitespace(c) == c \in {SP, TAB, CR, LF}

\* the positions of the code points that are not white space
SolidOf(chars) ==
    {i \in 1..Len(chars) : ~isUnicodeWhitespace(chars[i].codepoint)}

\* trimStr on the decoded characters of s
trimDecoded(s, chars) ==
    IF s = <<>> \/ chars = <<>> \/ SolidOf(chars) = {} THEN <<>>
    ELSE SubSeq(s, chars[SetMin(SolidOf(chars))].start,
                chars[SetMax(SolidOf(chars))].start
                    + chars[SetMax(SolidOf(chars))].length - 1)

trimStr(s) == trimDecoded(s, decodeUtf8(s))

RECURSIVE escape_char(_, _, _)
escape_char(text, needle, replacement) ==
    IF text = <<>> THEN <<>>
    ELSE (IF Head(text) = needle THEN replacement ELSE <<Head(text)>>)
           \o escape_char(Tail(text), needle, replacement)

Digits == {"0", "1", "2", "3", "4", "5", "6", "7", "8", "9"}

RECURSIVE CountLeading(_, _)
CountLeading(s, S) ==
    IF s # <<>> /\ Head(s) \in S THEN 1 + CountLeading(Tail(s), S) ELSE 0

\* std::string::insert(pos, "\\") with a 0-based position
InsertBackslash(s, pos) ==
    SubSeq(s, 1, pos) \o <<BSL>> \o SubSeq(s, pos + 1, Len(s))

\* advancedEscape's steps on output, in the order of the code
escapeLeadingDash(output) ==
    IF output # <<>> /\ Head(output) = "-" THEN InsertBackslash(output, 0) ELSE output

escapeLeadingPlus(output) ==
    IF Len(output) >= 2 /\ output[1] = "+" /\ output[2] = SP
    THEN InsertBackslash(output, 0) ELSE output

escapeLeadingEquals(output) ==
    IF output # <<>> /\ Head(output) = "=" THEN InsertBackslash(output, 0) ELSE output

escapeHeadingPrefix(output) ==
    LET count == CountLeading(output, {"#"})
    IN IF /\ output # <<>> /\ Head(output) = "#"
          /\ count >= 1 /\ count <= 6
          /\ Len(output) > count /\ output[count + 1] = SP
       THEN InsertBackslash(output, 0) ELSE output

escapeFence(output) ==
    IF Len(output) >= 3 /\ SubSeq(output, 1, 3) = <<"~", "~", "~">>
    THEN InsertBackslash(output, 0) ELSE output

escapeBlockquote(output) ==
    IF output # <<>> /\ Head(output) = ">" THEN InsertBackslash(output, 0) ELSE output

escapeOrderedList(output) ==
    LET idx == CountLeading(output, Digits)
    IN IF /\ output # <<>> /\ Head(output) \in Digits
          /\ idx + 1 < Len(output) /\ output[idx + 1] = "." /\ output[idx + 2] = SP
       THEN InsertBackslash(output, idx)
       ELSE output

advancedEscape(input) ==
    escapeOrderedList(
      escape_char(
        escapeBlockquote(
          escape_char(
            escape_char(
              escapeFence(
                escape_char(
                  escapeHeadingPrefix(escapeLeadingEquals(escapeLeadingPlus(
                    escapeLeadingDash(
                      escape_char(escape_char(input, BSL, <<BSL, BSL>>),
                                  "*", <<BSL, "*">>))))),
                  BackTick, <<BSL, BackTick>>)),
              "[", <<BSL, "[">>),
            "]", <<BSL, "]">>)),
        "_", <<BSL, "_">>))

\* an escape that leaves ']' as it is
RECURSIVE minimalEscape_OpenBracketOnly(_)
minimalEscape_OpenBracketOnly(input) ==
    IF input = <<>> THEN <<>>
    ELSE (IF Head(input) \in {BSL, "["} THEN <<BSL>> ELSE <<>>)
           \o <<Head(input)>> \o minimalEscape_OpenBracketOnly(Tail(input))

\* minimalEscape: the loop over the characters of input
RECURSIVE minimalEscape(_)
minimalEscape(input) ==
    IF input = <<>> THEN <<>>
    ELSE (IF Head(input) \in {BSL, "[", "]"} THEN <<BSL>> ELSE <<>>)
           \o <<Head(input)>> \o minimalEscape(Tail(input))

\* options.escapeFunction, named by the function it holds
escapeFunction(name, text) ==
    IF name = "minimalEscape" THEN minimalEscape(text) ELSE advancedEscape(text)

---------------------------------------------------------------------------
(* utilities.cpp and node.cpp: what the reducer asks about a node *)

RECURSIVE SetToSeq(_)
SetToSeq(S) ==
    IF S = {} THEN <<>> ELSE <<SetMin(S)>> \o SetToSeq(S \ {SetMin(S)})

\* NodeView::child_range: the children in document order
child_range(t, n) == IF n = Null THEN <<>> ELSE SetToSeq(ChildrenOf(t, n))

\* The collapse context: [engaged, text, skip], as gCollapse points at it.
NoContext == [engaged |-> FALSE, text |-> EmptyMap, skip |-> {}]

RECURSIVE collectText(_, _, _)
RECURSIVE collectTextOf(_, _, _)
collectTextOf(t, kids, ctx) ==
    IF kids = <<>> THEN <<>>
    ELSE collectText(t, Head(kids), ctx) \o collectTextOf(t, Tail(kids), ctx)

collectText(t, n, ctx) ==
    IF n = Null THEN <<>>
    ELSE IF ctx.engaged /\ n \in ctx.skip THEN <<>>
    ELSE IF is_text_like(t, n)
         THEN IF ctx.engaged /\ n \in DOMAIN ctx.text
              THEN ctx.text[n]
              ELSE t.kind[n].text
         ELSE IF is_element(t, n)
              THEN collectTextOf(t, child_range(t, n), ctx)
              ELSE <<>>

getNodeText(t, n, ctx) == collectText(t, n, ctx)

nodeHasTag(t, n, tags) == is_element(t, n) /\ tag_name(t, n) \in tags

\* hasDescendantWithTag that looks at the children only
hasDescendantWithTag_ChildrenOnly(t, n, tags) ==
    /\ is_element(t, n)
    /\ \E child \in ChildrenOf(t, n) : nodeHasTag(t, child, tags)

RECURSIVE hasDescendantWithTag(_, _, _)
hasDescendantWithTag(t, n, tags) ==
    /\ is_element(t, n)
    /\ \E child \in ChildrenOf(t, n) :
          nodeHasTag(t, child, tags) \/ hasDescendantWithTag(t, child, tags)

\* isCodeNode that looks at the node and its parent only
isCodeNode_ParentOnly(t, n) ==
    IF n = Null THEN FALSE
    ELSE IF is_element(t, n) /\ tag_name(t, n) = "code" THEN TRUE
    ELSE parent(t, n) # Null /\ is_element(t, parent(t, n))
           /\ tag_name(t, parent(t, n)) = "code"

RECURSIVE isCodeNode(_, _)
isCodeNode(t, n) ==
    IF n = Null THEN FALSE
    ELSE IF is_element(t, n) /\ tag_name(t, n) = "code" THEN TRUE
    ELSE IF parent(t, n) # Null THEN isCodeNode(t, parent(t, n))
    ELSE FALSE

kMeaningfulTags ==
    {"a", "table", "thead", "tbody", "tfoot", "th", "td", "iframe", "script",
     "audio", "video"}

isMeaningfulWhenBlank(t, n) == nodeHasTag(t, n, kMeaningfulTags)
hasMeaningfulWhenBlank(t, n) == hasDescendantWithTag(t, n, kMeaningfulTags)
hasVoid(t, n) == hasDescendantWithTag(t, n, kVoidTags)

\* node.cpp decodes with its own copy of the decoder
toCodepoints(text) == decodeFrom(text, 1)

\* The bytes of the code points cps[from..to] that satisfy which
\* ("all", "ascii" or "other"), in byte order.
RECURSIVE SliceBytes(_, _, _, _, _)
SliceBytes(text, cps, from, to, which) ==
    IF from > to THEN <<>>
    ELSE LET slice == cps[from]
             ascii == isAsciiWhitespaceCodePoint(slice.codepoint)
             taken == \/ which = "all"
                      \/ which = "ascii" /\ ascii
                      \/ which = "other" /\ ~ascii
         IN (IF taken
             THEN SubSeq(text, slice.start, slice.start + slice.length - 1)
             ELSE <<>>)
            \o SliceBytes(text, cps, from + 1, to, which)

TrailingStart(codepoints) ==
    IF SolidOf(codepoints) = {} THEN Len(codepoints) + 1
    ELSE SetMax(SolidOf(codepoints)) + 1

\* computeEdgeWhitespace on the code points of text: leading_end is the
\* first code point that is not white space, trailing_start the one after
\* the last; a text of white space only is all leading.
edgeWhitespaceOf(text, codepoints) ==
    [leading |-> SliceBytes(text, codepoints, 1,
                            SetMin(SolidOf(codepoints) \cup {Len(codepoints) + 1}) - 1, "all"),
     leadingAscii |-> SliceBytes(text, codepoints, 1,
                            SetMin(SolidOf(codepoints) \cup {Len(codepoints) + 1}) - 1, "ascii"),
     leadingNonAscii |-> SliceBytes(text, codepoints, 1,
                            SetMin(SolidOf(codepoints) \cup {Len(codepoints) + 1}) - 1, "other"),
     trailing |-> SliceBytes(text, codepoints,
                            TrailingStart(codepoints), Len(codepoints), "all"),
     trailingAscii |-> SliceBytes(text, codepoints,
                            TrailingStart(codepoints), Len(codepoints), "ascii"),
     trailingNonAscii |-> SliceBytes(text, codepoints,
                            TrailingStart(codepoints), Len(codepoints), "other")]

computeEdgeWhitespace(text) == edgeWhitespaceOf(text, toCodepoints(text))

startsWithAsciiSpace(text) == text # <<>> /\ Head(text) = SP
endsWithAsciiSpace(text) == text # <<>> /\ Last(text) = SP

\* side is "Left" or "Right"
adjacentSibling(t, n, side) ==
    IF ~is_element(t, parent(t, n)) THEN Null
    ELSE LET siblings == ChildrenOf(t, parent(t, n))
             wanted == IF side = "Left" THEN {c \in siblings : c < n}
                       ELSE {c \in siblings : c > n}
         IN IF wanted = {} THEN Null
            ELSE IF side = "Left"
                 THEN CHOOSE c \in wanted : \A d \in wanted : d <= c
                 ELSE SetMin(wanted)

\* isFlankedByWhitespace without the test for a code sibling
isFlankedByWhitespace_CodeCounts(side, t, n, preformattedCode, ctx) ==
    LET sibling == adjacentSibling(t, n, side)
        text == getNodeText(t, sibling, ctx)
    IN IF sibling = Null THEN FALSE
       ELSE IF is_element(t, sibling) /\ isBlock(t, sibling) THEN FALSE
       ELSE IF ~is_element(t, sibling) /\ ~is_text_like(t, sibling) THEN FALSE
       ELSE IF text = <<>> THEN FALSE
       ELSE IF side = "Left" THEN endsWithAsciiSpace(text)
            ELSE startsWithAsciiSpace(text)

isFlankedByWhitespace(side, t, n, preformattedCode, ctx) ==
    LET sibling == adjacentSibling(t, n, side)
        text == getNodeText(t, sibling, ctx)
    IN IF sibling = Null THEN FALSE
       ELSE IF is_element(t, sibling) /\ preformattedCode /\ isCodeNode(t, sibling)
            THEN FALSE
       ELSE IF is_element(t, sibling) /\ isBlock(t, sibling) THEN FALSE
       ELSE IF ~is_element(t, sibling) /\ ~is_text_like(t, sibling) THEN FALSE
       ELSE IF text = <<>> THEN FALSE
       ELSE IF side = "Left" THEN endsWithAsciiSpace(text)
            ELSE startsWithAsciiSpace(text)

NbspEntity == <<"&", "n", "b", "s", "p", ";">>

\* node.cpp's encodeNbsp
RECURSIVE node_encodeNbsp(_)
node_encodeNbsp(text) ==
    IF text = <<>> THEN <<>>
    ELSE IF Len(text) >= 2 /\ text[1] = ByteC2 /\ text[2] = ByteA0
         THEN NbspEntity \o node_encodeNbsp(SubSeq(text, 3, Len(text)))
         ELSE <<Head(text)>> \o node_encodeNbsp(Tail(text))

NoFlank == [leading |-> <<>>, trailing |-> <<>>]

\* flankingWhitespace on the edges computeEdgeWhitespace found
flankOf(edges, t, n, preformattedCode, ctx) ==
    [leading |->
        node_encodeNbsp(
            IF /\ edges.leadingAscii # <<>>
               /\ isFlankedByWhitespace("Left", t, n, preformattedCode, ctx)
            THEN edges.leadingNonAscii ELSE edges.leading),
     trailing |->
        node_encodeNbsp(
            IF /\ edges.trailingAscii # <<>>
               /\ isFlankedByWhitespace("Right", t, n, preformattedCode, ctx)
            THEN edges.trailingNonAscii ELSE edges.trailing)]

flankingWhitespace(t, n, preformattedCode, ctx) ==
    IF n = Null THEN NoFlank
    ELSE IF isBlock(t, n) \/ (preformattedCode /\ isCodeNode(t, n)) THEN NoFlank
    ELSE IF getNodeText(t, n, ctx) = <<>> THEN NoFlank
    ELSE flankOf(computeEdgeWhitespace(getNodeText(t, n, ctx)),
                 t, n, preformattedCode, ctx)

isBlank(t, n, ctx) ==
    IF n = Null THEN FALSE
    ELSE IF is_element(t, n) /\ (isVoid(t, n) \/ isMeaningfulWhenBlank(t, n))
         THEN FALSE
    ELSE LET codepoints == toCodepoints(getNodeText(t, n, ctx))
         IN IF \E i \in 1..Len(codepoints) :
                  ~isUnicodeWhitespace(codepoints[i].codepoint)
            THEN FALSE
            ELSE ~(is_element(t, n) /\ (hasVoid(t, n) \/ hasMeaningfulWhenBlank(t, n)))

\* The fields of NodeMetadata the reducer and the rules read.
analyzeNode(t, n, preformattedCode, ctx) ==
    [isBlock |-> isBlock(t, n),
     isCode |-> isCodeNode(t, n),
     isBlank |-> isBlank(t, n, ctx),
     isVoid |-> isVoid(t, n),
     flankingWhitespace |-> flankingWhitespace(t, n, preformattedCode, ctx)]

---------------------------------------------------------------------------
(* turndown.cpp: the chunk joiner *)

RECURSIVE trimLeadingNewlines(_)
trimLeadingNewlines(text) ==
    IF text # <<>> /\ Head(text) \in {LF, CR}
    THEN trimLeadingNewlines(Tail(text))
    ELSE text

RECURSIVE trimTrailingNewlines(_)
trimTrailingNewlines(text) ==
    IF text # <<>> /\ Last(text) \in {LF, CR}
    THEN trimTrailingNewlines(Front(text))
    ELSE text

\* std::string(count, c)
Repeat(c, count) == [i \in 1..count |-> c]

joinChunks_Uncapped(output, addition) ==
    IF output = <<>> THEN addition
    ELSE IF addition = <<>> THEN output
    ELSE LET left == trimTrailingNewlines(output)
             right == trimLeadingNewlines(addition)
             leftRemoved == Len(output) - Len(left)
             rightRemoved == Len(addition) - Len(right)
         IN left \o Repeat(LF, Max(leftRemoved, rightRemoved)) \o right

joinChunks(output, addition) ==
    IF output = <<>> THEN addition
    ELSE IF addition = <<>> THEN output
    ELSE LET left == trimTrailingNewlines(output)
             right == trimLeadingNewlines(addition)
             leftRemoved == Len(output) - Len(left)
             rightRemoved == Len(addition) - Len(right)
             longest == Max(leftRemoved, rightRemoved)
             separatorLength == IF longest > 2 THEN 2 ELSE longest
         IN left \o Repeat(LF, separatorLength) \o right

---------------------------------------------------------------------------
(* turndown.cpp: TurndownOptions; rules.h / rules.cpp: Rule and Rules *)

\* TurndownOptions(): a std::function member is named by what it holds.
DefaultOptions ==
    [headingStyle |-> "setext",
     hr |-> <<"*", SP, "*", SP, "*">>,
     bulletListMarker |-> <<"*">>,
     codeBlockStyle |-> "indented",
     fence |-> <<BackTick, BackTick, BackTick>>,
     emDelimiter |-> <<"_">>,
     strongDelimiter |-> <<"*", "*">>,
     linkStyle |-> "inlined",
     linkReferenceStyle |-> "full",
     br |-> <<SP, SP>>,
     preformattedCode |-> FALSE,
     escapeFunction |-> "advancedEscape",
     keepTags |-> {}]

\* An empty std::function
Empty == "empty"
EmptyFilter == [fn |-> Empty, tags |-> {}]

\* struct Rule {filter, replacement, append, key}: a callable is named by the
\* lambda it holds; a filter that tests tag names carries the names.  A key
\* is a tuple of its parts ("keep-" and the suffix, for a keep rule).
MakeRule(filter, replacement, append, key) ==
    [filter |-> filter, replacement |-> replacement, append |-> append,
     key |-> key]

\* What is left of a Rule that was moved from, where the standard library
\* leaves a moved-from std::function and std::string empty.
MovedFromRule == MakeRule(EmptyFilter, Empty, Empty, <<>>)

\* The three rules Rules::Rules builds
blankRule == MakeRule([fn |-> "always", tags |-> {}], "blankReplacement", Empty, <<"blank">>)
keepReplacementRule ==
    MakeRule([fn |-> "always", tags |-> {}], "keepReplacement", Empty, <<"keep-replacement">>)
defaultRule == MakeRule([fn |-> "always", tags |-> {}], "defaultReplacement", Empty, <<"default">>)

\* Rules::Rules(opts)
NewRules ==
    [rulesArray |-> <<>>, keepRules |-> <<>>, removeRules |-> <<>>,
     referenceStore |-> <<>>]

\* a rule set that puts a new rule behind the rules it holds
Rules_addRule_AtBack(rules, key, rule) ==
    [rules EXCEPT !.rulesArray = Append(@, [rule EXCEPT !.key = key])]

\* Rules::addRule
Rules_addRule(rules, key, rule) ==
    [rules EXCEPT !.rulesArray = <<[rule EXCEPT !.key = key]>> \o @]

\* std::tolower on the tag names of the model
ToLower(tag) ==
    CASE tag = "DEL" -> "del"
      [] tag = "SPAN" -> "span"
      [] OTHER -> tag

normalizeTags(tags) == {ToLower(tag) : tag \in tags}

makeTagFilter(filters) == [fn |-> "tagFilter", tags |-> normalizeTags(filters)]

addKeepRule(rules, filter, keySuffix) ==
    [rules EXCEPT !.keepRules =
        <<MakeRule(filter, keepReplacementRule.replacement, Empty,
                   <<"keep-", keySuffix>>)>> \o @]

addRemoveRule(rules, filter, keySuffix) ==
    [rules EXCEPT !.removeRules =
        <<MakeRule(filter, "removeReplacement", Empty,
                   <<"remove-", keySuffix>>)>> \o @]

\* Rules::keep(std::string) and Rules::remove(std::string)
Rules_keep(rules, tag) == addKeepRule(rules, makeTagFilter({tag}), tag)
Rules_remove(rules, tag) == addRemoveRule(rules, makeTagFilter({tag}), tag)

\* Rules::keep(std::vector<std::string>)
Rules_keepTags(rules, tags) == addKeepRule(rules, makeTagFilter(tags), "multi")

\* NodeView::attribute: the attributes of the model are href and start
attribute(t, n, name) ==
    IF ~is_element(t, n) THEN <<>>
    ELSE IF name = "href" THEN t.kind[n].href
    ELSE IF name = "start" THEN t.kind[n].start
    ELSE <<>>

has_tag(t, n, tag) == n # Null /\ is_element(t, n) /\ tag_name(t, n) = tag

find_child(t, n, tag) ==
    LET found == {c \in ChildrenOf(t, n) : has_tag(t, c, tag)}
    IN IF n = Null \/ found = {} THEN Null ELSE SetMin(found)

hasSiblingsView(t, n) ==
    /\ is_element(t, parent(t, n))
    /\ \E c \in ChildrenOf(t, parent(t, n)) : c # n /\ is_element(t, c)

\* The filter lambdas, by name.  A call of an empty std::function throws
\* std::bad_function_call: findRule tests for that before it calls this.
FilterHolds(filter, t, n, options) ==
    CASE filter.fn = "always" -> TRUE
      [] filter.fn = "tagFilter" -> n # Null /\ is_element(t, n) /\ tag_name(t, n) \in filter.tags
      [] filter.fn = "hasTagIn" -> \E tag \in filter.tags : has_tag(t, n, tag)
      [] filter.fn = "paragraph" -> has_tag(t, n, "p")
      [] filter.fn = "lineBreak" -> has_tag(t, n, "br")
      [] filter.fn \in {"h1", "h2", "h3", "h4", "h5", "h6"} -> has_tag(t, n, filter.fn)
      [] filter.fn = "blockquote" -> has_tag(t, n, "blockquote")
      [] filter.fn = "list" -> has_tag(t, n, "ul") \/ has_tag(t, n, "ol")
      [] filter.fn = "listItem" -> has_tag(t, n, "li")
      [] filter.fn = "indentedCodeBlock" ->
            /\ options.codeBlockStyle = "indented"
            /\ has_tag(t, n, "pre")
            /\ find_child(t, n, "code") # Null
      [] filter.fn = "fencedCodeBlock" ->
            /\ options.codeBlockStyle = "fenced"
            /\ has_tag(t, n, "pre")
            /\ find_child(t, n, "code") # Null
      [] filter.fn = "horizontalRule" -> has_tag(t, n, "hr")
      [] filter.fn = "inlineLink" ->
            /\ options.linkStyle = "inlined"
            /\ has_tag(t, n, "a")
            /\ attribute(t, n, "href") # <<>>
      [] filter.fn = "referenceLink" ->
            /\ options.linkStyle = "referenced"
            /\ has_tag(t, n, "a")
            /\ attribute(t, n, "href") # <<>>
      [] filter.fn = "emphasis" -> has_tag(t, n, "em") \/ has_tag(t, n, "i")
      [] filter.fn = "strong" -> has_tag(t, n, "strong") \/ has_tag(t, n, "b")
      [] filter.fn = "code" ->
            LET isCodeBlock == /\ parent(t, n) # Null
                               /\ has_tag(t, parent(t, n), "pre")
                               /\ ~hasSiblingsView(t, n)
            IN has_tag(t, n, "code") /\ ~isCodeBlock
      [] filter.fn = "image" -> has_tag(t, n, "img")

\* Rules::findRule: [index, threw]; index 0 is nullptr.  The candidates are
\* tried in order, and the call of an empty filter throws.
findRule(candidates, t, n, options) ==
    LET stops == {i \in 1..Len(candidates) :
                     \/ candidates[i].filter.fn = Empty
                     \/ FilterHolds(candidates[i].filter, t, n, options)}
    IN IF stops = {} THEN [index |-> 0, threw |-> FALSE]
       ELSE IF candidates[SetMin(stops)].filter.fn = Empty
            THEN [index |-> 0, threw |-> TRUE]
            ELSE [index |-> SetMin(stops), threw |-> FALSE]

\* Rules::forNode after the blank rule: main, kept and removed are what
\* findRule returns for the three lists, each asked only when the one
\* before found nothing.
selectRule(rules, main, kept, removed) ==
    IF main.threw THEN [rule |-> defaultRule, threw |-> TRUE]
    ELSE IF main.index # 0
         THEN [rule |-> rules.rulesArray[main.index], threw |-> FALSE]
    ELSE IF kept.threw THEN [rule |-> defaultRule, threw |-> TRUE]
    ELSE IF kept.index # 0
         THEN [rule |-> rules.keepRules[kept.index], threw |-> FALSE]
    ELSE IF removed.threw THEN [rule |-> defaultRule, threw |-> TRUE]
    ELSE IF removed.index # 0
         THEN [rule |-> rules.removeRules[removed.index], threw |-> FALSE]
    ELSE [rule |-> defaultRule, threw |-> FALSE]

\* Rules::forNode: [rule, threw]
forNode_RemoveBeforeKeep(rules, t, n, options, ctx) ==
    IF ~isVoid(t, n) /\ isBlank(t, n, ctx)
    THEN [rule |-> blankRule, threw |-> FALSE]
    ELSE IF findRule(rules.rulesArray, t, n, options).index # 0
         THEN [rule |-> rules.rulesArray[findRule(rules.rulesArray, t, n, options).index],
               threw |-> FALSE]
    ELSE IF findRule(rules.removeRules, t, n, options).index # 0
         THEN [rule |-> rules.removeRules[findRule(rules.removeRules, t, n, options).index],
               threw |-> FALSE]
    ELSE IF findRule(rules.keepRules, t, n, options).index # 0
         THEN [rule |-> rules.keepRules[findRule(rules.keepRules, t, n, options).index],
               threw |-> FALSE]
    ELSE [rule |-> defaultRule, threw |-> FALSE]

forNode(rules, t, n, options, ctx) ==
    IF ~isVoid(t, n) /\ isBlank(t, n, ctx)
    THEN [rule |-> blankRule, threw |-> FALSE]
    ELSE selectRule(rules,
                    findRule(rules.rulesArray, t, n, options),
                    findRule(rules.keepRules, t, n, options),
                    findRule(rules.removeRules, t, n, options))

---------------------------------------------------------------------------
(* commonmark_rules.cpp: helpers of the rule lambdas *)

RECURSIVE CountTrailing(_, _)
CountTrailing(s, S) ==
    IF s # <<>> /\ Last(s) \in S THEN 1 + CountTrailing(Front(s), S) ELSE 0

ltrimNewlines(text) == SubSeq(text, CountLeading(text, {CR, LF}) + 1, Len(text))
rtrimNewlines(text) == SubSeq(text, 1, Len(text) - CountTrailing(text, {CR, LF}))
trimNewlines(text) == rtrimNewlines(ltrimNewlines(text))

\* std::regex_replace(result, std::regex(R"(\n)"), "\n    ")
IndentNewlines(text) == escape_char(text, LF, <<LF, SP, SP, SP, SP>>)

\* the regex class \s
RegexSpace == {SP, TAB, LF, FF, CR}

\* std::regex_replace(result, std::regex(R"(\n\s*$)"), "\n    ")
IndentTail(text) ==
    LET starts == {p \in 1..Len(text) :
                      /\ text[p] = LF
                      /\ \A q \in (p + 1)..Len(text) : text[q] \in RegexSpace}
    IN IF starts = {} THEN text
       ELSE SubSeq(text, 1, SetMin(starts) - 1) \o <<LF, SP, SP, SP, SP>>

getNodeIndexView(t, n) ==
    IF ~is_element(t, parent(t, n)) THEN -1
    ELSE Cardinality({c \in ChildrenOf(t, parent(t, n)) :
                         is_element(t, c) /\ c < n})

getNextSiblingView(t, n) ==
    LET later == {c \in ChildrenOf(t, parent(t, n)) : c > n /\ is_element(t, c)}
    IN IF parent(t, n) = Null \/ later = {} THEN Null ELSE SetMin(later)

hasNextSiblingNodeView(t, n) == getNextSiblingView(t, n) # Null

isLastElementChildView(t, p, n) ==
    /\ is_element(t, p)
    /\ is_element(t, n)
    /\ n \in ChildrenOf(t, p)
    /\ \A c \in ChildrenOf(t, p) : is_element(t, c) => c <= n

DigitSeq == <<"0", "1", "2", "3", "4", "5", "6", "7", "8", "9">>
DigitValue(c) == (CHOOSE i \in 1..10 : DigitSeq[i] = c) - 1

RECURSIVE DigitsValue(_)
DigitsValue(ds) ==
    IF ds = <<>> THEN 0 ELSE 10 * DigitsValue(Front(ds)) + DigitValue(Last(ds))

\* std::to_string(int)
RECURSIVE to_string(_)
to_string(i) ==
    IF i < 0 THEN <<"-">> \o to_string(0 - i)
    ELSE IF i < 10 THEN <<DigitSeq[i + 1]>>
    ELSE to_string(i \div 10) \o <<DigitSeq[(i % 10) + 1]>>

\* INT_MAX \div 10: a decimal numeral of ten digits is out of the range of
\* int when its first nine digits exceed this, or equal it with a last digit
\* above 7 (8 for a negative number).
IntMaxDiv10 == 214748364

\* whether the decimal numeral is out of the range of int
outOfIntRange(negative, digits) ==
    \/ Len(digits) > 10
    \/ /\ Len(digits) = 10
       /\ \/ DigitsValue(Front(digits)) > IntMaxDiv10
          \/ /\ DigitsValue(Front(digits)) = IntMaxDiv10
             /\ DigitValue(Last(digits)) > (IF negative THEN 8 ELSE 7)

\* std::stoi on the leading digits of what follows the sign; digits is the
\* numeral without its leading zeros
stoiNumeral(negative, numeral, digits) ==
    IF numeral = <<>> THEN [exc |-> "std::invalid_argument", value |-> 0]
    ELSE IF outOfIntRange(negative, digits)
         THEN [exc |-> "std::out_of_range", value |-> 0]
    ELSE [exc |-> "none",
          value |-> IF negative THEN 0 - DigitsValue(digits)
                    ELSE DigitsValue(digits)]

LeadingDigits(body) == SubSeq(body, 1, CountLeading(body, Digits))
StripZeros(numeral) ==
    SubSeq(numeral, CountLeading(numeral, {"0"}) + 1, Len(numeral))

\* std::stoi from the sign on
stoiSigned(s) ==
    IF s # <<>> /\ Head(s) \in {"+", "-"}
    THEN stoiNumeral(Head(s) = "-", LeadingDigits(Tail(s)),
                     StripZeros(LeadingDigits(Tail(s))))
    ELSE stoiNumeral(FALSE, LeadingDigits(s), StripZeros(LeadingDigits(s)))

\* std::stoi(str): skips white space, reads a sign and the decimal digits,
\* ignores what follows; [exc, value].
stoi(str) == stoiSigned(SubSeq(str, CountLeading(str, RegexSpace) + 1, Len(str)))

\* std::getline over the text, line by line
RECURSIVE Lines(_)
Lines(text) ==
    IF text = <<>> THEN <<>>
    ELSE LET breaks == {i \in 1..Len(text) : text[i] = LF}
         IN IF breaks = {} THEN <<text>>
            ELSE <<SubSeq(text, 1, SetMin(breaks) - 1)>>
                   \o Lines(SubSeq(text, SetMin(breaks) + 1, Len(text)))

RECURSIVE QuoteLines(_)
QuoteLines(lines) ==
    IF lines = <<>> THEN <<>>
    ELSE <<">", SP>> \o Head(lines) \o <<LF>> \o QuoteLines(Tail(lines))

\* std::regex_replace(content, std::regex(R"(\r?\n|\r)"), " ")
RECURSIVE NormalizeNewlines(_)
NormalizeNewlines(text) ==
    IF text = <<>> THEN <<>>
    ELSE IF Len(text) >= 2 /\ text[1] = CR /\ text[2] = LF
         THEN <<SP>> \o NormalizeNewlines(SubSeq(text, 3, Len(text)))
    ELSE IF Head(text) \in {CR, LF}
         THEN <<SP>> \o NormalizeNewlines(Tail(text))
    ELSE <<Head(text)>> \o NormalizeNewlines(Tail(text))

\* The lengths of the maximal runs of c in text that begin at a position
\* of starts.
RunLengthsAt(text, c, starts) ==
    {CountLeading(SubSeq(text, p, Len(text)), {c}) :
        p \in {q \in starts : q <= Len(text) /\ text[q] = c /\ (q = 1 \/ text[q - 1] # c)}}

\* every match of std::regex("`+")
TickRuns(text) == RunLengthsAt(text, BackTick, 1..Len(text))

\* std::regex_search(normalized, std::regex(R"(^`|^ .*?[^ ].* $|`$)"))
needsSpace(normalized) ==
    /\ normalized # <<>>
    /\ \/ Head(normalized) = BackTick
       \/ Last(normalized) = BackTick
       \/ /\ Len(normalized) >= 3
          /\ Head(normalized) = SP
          /\ Last(normalized) = SP
          /\ \E i \in 2..(Len(normalized) - 1) : normalized[i] # SP

\* the runs of c the search finds when it looks at the first line only
FenceRuns_FirstLineOnly(code, c) ==
    {r \in RunLengthsAt(code, c, {1}) : r >= 3}

\* every match of (^|\n)c{3,}: the runs of c at the start of a line
FenceRuns(code, c) ==
    {r \in RunLengthsAt(code, c, {1} \cup {p + 1 : p \in {q \in 1..Len(code) : code[q] = LF}}) :
        r >= 3}


\* escapeHtml(text, attribute)
RECURSIVE escapeHtml(_, _)
escapeHtml(text, isAttribute) ==
    IF text = <<>> THEN <<>>
    ELSE LET c == Head(text)
             out == CASE c = "&" -> <<"&", "a", "m", "p", ";">>
                      [] c = "<" -> <<"&", "l", "t", ";">>
                      [] c = ">" -> <<"&", "g", "t", ";">>
                      [] c = "\"" /\ isAttribute -> <<"&", "q", "u", "o", "t", ";">>
                      [] c = "'" /\ isAttribute -> <<"&", "#", "3", "9", ";">>
                      [] OTHER -> <<c>>
         IN out \o escapeHtml(Tail(text), isAttribute)

\* The attributes of an element, serialized.
SerializeAttributes(t, n) ==
    (IF attribute(t, n, "href") = <<>> THEN <<>>
     ELSE <<SP, "href", "=", "\"">> \o escapeHtml(attribute(t, n, "href"), TRUE) \o <<"\"">>)
    \o
    (IF attribute(t, n, "start") = <<>> THEN <<>>
     ELSE <<SP, "start", "=", "\"">> \o escapeHtml(attribute(t, n, "start"), TRUE) \o <<"\"">>)

\* serializeNodeRecursive: a tag name is written as one token
RECURSIVE serializeNodeRecursive(_, _)
RECURSIVE serializeAll(_, _)
serializeAll(t, kids) ==
    IF kids = <<>> THEN <<>>
    ELSE serializeNodeRecursive(t, Head(kids)) \o serializeAll(t, Tail(kids))

serializeNodeRecursive(t, n) ==
    IF n = Null THEN <<>>
    ELSE IF is_text_like(t, n) THEN escapeHtml(t.kind[n].text, FALSE)
    ELSE IF t.kind[n].type = "Comment"
         THEN <<"<", "!", "-", "-">> \o t.kind[n].text \o <<"-", "-", ">">>
    ELSE IF is_element(t, n)
         THEN <<"<", tag_name(t, n)>> \o SerializeAttributes(t, n) \o <<">">>
              \o (IF isVoid(t, n) THEN <<>>
                  ELSE serializeAll(t, child_range(t, n))
                       \o <<"<", "/", tag_name(t, n), ">">>)
    ELSE <<>>

serializeNode(t, n) == serializeNodeRecursive(t, n)

---------------------------------------------------------------------------
(* commonmark_rules.cpp, turndown.cpp: the replacement lambdas *)

\* The outcome of a piece of the reduction: the Markdown, the reference
\* accumulator after it, and the exception that ended it ("none" if none).
Ok(out, refs) == [out |-> out, refs |-> refs, exc |-> "none"]
Thrown(exc, refs) == [out |-> <<>>, refs |-> refs, exc |-> exc]

HeadingLevel(key) ==
    CASE key = "h1" -> 1 [] key = "h2" -> 2 [] key = "h3" -> 3
      [] key = "h4" -> 4 [] key = "h5" -> 5 [] key = "h6" -> 6

headingReplacement(i, content, options) ==
    IF options.headingStyle = "setext" /\ i <= 2
    THEN <<LF, LF>> \o content \o <<LF>>
           \o Repeat(IF i = 1 THEN "=" ELSE "-", Len(content)) \o <<LF, LF>>
    ELSE <<LF, LF>> \o Repeat("#", i) \o <<SP>> \o content \o <<LF, LF>>

blockquoteReplacement(content) ==
    <<LF, LF>> \o QuoteLines(Lines(trimNewlines(content))) \o <<LF, LF>>

listReplacement(content, t, n) ==
    LET inner == trimNewlines(content)
    IN IF has_tag(t, parent(t, n), "li") /\ isLastElementChildView(t, parent(t, n), n)
       THEN <<LF>> \o inner
       ELSE <<LF, LF>> \o inner \o <<LF, LF>>

\* [exc, out]: std::stoi throws on a start attribute it cannot convert
listItemReplacement(content, t, n, options) ==
    LET ltrimmed == ltrimNewlines(content)
        trimmed == rtrimNewlines(ltrimmed)
        hadTrailingNewlines == Len(trimmed) # Len(ltrimmed)
        indented == IndentNewlines(IF hadTrailingNewlines
                                   THEN trimmed \o <<LF>> ELSE trimmed)
        ordered == has_tag(t, parent(t, n), "ol")
        index == getNodeIndexView(t, n)
        startAttr == attribute(t, parent(t, n), "start")
        start == IF startAttr = <<>> THEN [exc |-> "none", value |-> 1]
                 ELSE stoi(startAttr)
        prefix == IF ordered
                  THEN (IF index >= 0 THEN to_string(start.value + index)
                        ELSE <<"1">>) \o <<".", SP, SP>>
                  ELSE options.bulletListMarker \o <<SP, SP, SP>>
        hasNext == hasNextSiblingNodeView(t, n)
        result == IF hasNext /\ \E i \in 1..Len(indented) : indented[i] = LF
                  THEN IndentTail(indented) ELSE indented
        needsTrailingNewline ==
            hasNext /\ ~(result # <<>> /\ Last(result) = LF)
    IN IF ordered /\ start.exc # "none"
       THEN [exc |-> start.exc, out |-> <<>>]
       ELSE [exc |-> "none",
             out |-> prefix \o result
                       \o (IF needsTrailingNewline THEN <<LF>> ELSE <<>>)]

indentedCodeBlockReplacement(t, n, ctx) ==
    LET codeNode == find_child(t, n, "code")
        text == getNodeText(t, IF codeNode # Null THEN codeNode ELSE n, ctx)
        code == IF text # <<>> /\ Last(text) = LF THEN Front(text) ELSE text
    IN <<LF, LF, SP, SP, SP, SP>> \o IndentNewlines(code) \o <<LF, LF>>

\* the code element of the model has no class attribute: no language
fencedCodeBlockReplacement(t, n, options, ctx) ==
    LET codeNode == find_child(t, n, "code")
        text == getNodeText(t, codeNode, ctx)
        fenceChar == IF options.fence = <<>> THEN BackTick ELSE Head(options.fence)
        runs == FenceRuns(text, fenceChar)
        fenceSize == IF runs = {} THEN 3 ELSE Max(3, SetMax(runs) + 1)
        fence == Repeat(fenceChar, fenceSize)
        code == IF text # <<>> /\ Last(text) = LF THEN Front(text) ELSE text
    IN <<LF, LF>> \o fence \o <<LF>> \o code \o <<LF>> \o fence \o <<LF, LF>>

\* the link of the model has no title attribute
inlineLinkReplacement(content, t, n) ==
    LET href == attribute(t, n, "href")
        escapedHref == escape_char(escape_char(href, "(", <<BSL, "(">>),
                                   ")", <<BSL, ")">>)
    IN <<"[">> \o content \o <<"]", "(">> \o escapedHref \o <<")">>

\* [replacement, reference]
referenceLinkReplacement(content, t, n, options, referenceStore) ==
    LET href == attribute(t, n, "href")
        id == to_string(Len(referenceStore) + 1)
    IN IF options.linkReferenceStyle = "collapsed"
       THEN [replacement |-> <<"[">> \o content \o <<"]", "[", "]">>,
             reference |-> <<"[">> \o content \o <<"]", ":", SP>> \o href]
       ELSE IF options.linkReferenceStyle = "shortcut"
       THEN [replacement |-> <<"[">> \o content \o <<"]">>,
             reference |-> <<"[">> \o content \o <<"]", ":", SP>> \o href]
       ELSE [replacement |-> <<"[">> \o content \o <<"]", "[">> \o id \o <<"]">>,
             reference |-> <<"[">> \o id \o <<"]", ":", SP>> \o href]

RECURSIVE ReferenceLines(_)
ReferenceLines(referenceStore) ==
    IF referenceStore = <<>> THEN <<>>
    ELSE Head(referenceStore) \o <<LF>> \o ReferenceLines(Tail(referenceStore))

\* the referenceLink rule's append, before it clears the store
referenceLinkAppend(referenceStore) ==
    IF referenceStore = <<>> THEN <<>>
    ELSE <<LF, LF>> \o ReferenceLines(referenceStore) \o <<LF, LF>>

delimited(content, delimiter) ==
    IF trimStr(content) = <<>> THEN <<>>
    ELSE delimiter \o content \o delimiter

\* a code rule whose delimiter is always one backtick
codeReplacement_SingleTick(content) ==
    LET normalized == NormalizeNewlines(content)
        pad == IF needsSpace(normalized) THEN <<SP>> ELSE <<>>
    IN IF content = <<>> THEN <<>>
       ELSE <<BackTick>> \o pad \o normalized \o pad \o <<BackTick>>

\* a code rule whose delimiter is one longer than the longest run
codeReplacement_LongerThanAll(content) ==
    LET normalized == NormalizeNewlines(content)
        runs == TickRuns(normalized)
        delimiter == Repeat(BackTick, IF runs = {} THEN 1 ELSE SetMax(runs) + 1)
        pad == IF needsSpace(normalized) THEN <<SP>> ELSE <<>>
    IN IF content = <<>> THEN <<>>
       ELSE delimiter \o pad \o normalized \o pad \o delimiter

\* the replacement of the code rule

codeReplacement(content) ==
    LET normalized == NormalizeNewlines(content)
        runs == TickRuns(normalized)
        length == SetMin({k \in 1..(Len(normalized) + 1) : k \notin runs})
        delimiter == Repeat(BackTick, length)
        pad == IF needsSpace(normalized) THEN <<SP>> ELSE <<>>
    IN IF content = <<>> THEN <<>>
       ELSE delimiter \o pad \o normalized \o pad \o delimiter

\* the image of the model has neither alt, src nor title
imageReplacement(t, n) ==
    LET alt == attribute(t, n, "alt")
        src == attribute(t, n, "src")
    IN IF src = <<>> THEN <<>>
       ELSE <<"!", "[">> \o alt \o <<"]", "(">> \o src \o <<")">>

\* the defaults of options.blankReplacement and options.defaultReplacement
blankReplacement(t, n) == IF isBlock(t, n) THEN <<LF, LF>> ELSE <<>>
defaultReplacement(content, t, n) ==
    IF isBlock(t, n) THEN <<LF, LF>> \o content \o <<LF, LF>> ELSE content

\* rule.replacement(content, node, options), by the name of the lambda;
\* the call of an empty std::function throws std::bad_function_call.
Replacement(name, content, t, n, options, refs, ctx) ==
    CASE name = Empty -> Thrown("std::bad_function_call", refs)
      [] name = "blankReplacement" -> Ok(blankReplacement(t, n), refs)
      [] name = "keepReplacement" -> Ok(serializeNode(t, n), refs)
      [] name = "defaultReplacement" -> Ok(defaultReplacement(content, t, n), refs)
      [] name = "removeReplacement" -> Ok(<<>>, refs)
      [] name = "strikethrough" -> Ok(<<"~">> \o content \o <<"~">>, refs)
      [] name = "wrappedParagraph" -> Ok(<<"[", "[">> \o content \o <<"]", "]">>, refs)
      [] name = "paragraph" -> Ok(<<LF, LF>> \o content \o <<LF, LF>>, refs)
      [] name = "lineBreak" -> Ok(options.br \o <<LF>>, refs)
      [] name \in {"h1", "h2", "h3", "h4", "h5", "h6"} ->
            Ok(headingReplacement(HeadingLevel(name), content, options), refs)
      [] name = "blockquote" -> Ok(blockquoteReplacement(content), refs)
      [] name = "list" -> Ok(listReplacement(content, t, n), refs)
      [] name = "listItem" ->
            LET item == listItemReplacement(content, t, n, options)
            IN IF item.exc # "none" THEN Thrown(item.exc, refs)
               ELSE Ok(item.out, refs)
      [] name = "indentedCodeBlock" -> Ok(indentedCodeBlockReplacement(t, n, ctx), refs)
      [] name = "fencedCodeBlock" ->
            Ok(fencedCodeBlockReplacement(t, n, options, ctx), refs)
      [] name = "horizontalRule" -> Ok(<<LF, LF>> \o options.hr \o <<LF, LF>>, refs)
      [] name = "inlineLink" -> Ok(inlineLinkReplacement(content, t, n), refs)
      [] name = "referenceLink" ->
            LET link == referenceLinkReplacement(content, t, n, options, refs)
            IN Ok(link.replacement, Append(refs, link.reference))
      [] name = "emphasis" -> Ok(delimited(content, options.emDelimiter), refs)
      [] name = "strong" -> Ok(delimited(content, options.strongDelimiter), refs)
      [] name = "code" -> Ok(codeReplacement(content), refs)
      [] name = "image" -> Ok(imageReplacement(t, n), refs)

---------------------------------------------------------------------------
(* turndown.cpp: the reducer and runPipeline *)

\* collapseWhitespace as a function: the walk run to its end.  The walk is
\* deterministic, so a state of the locals that comes back is a loop the
\* function never leaves: pc is then "hung".
RECURSIVE RunWalk(_, _, _, _)
RunWalk(t, codeAsPre, w, seen) ==
    IF w.pc = "done" THEN w
    ELSE IF w \in seen THEN [w EXCEPT !.pc = "hung"]
    ELSE RunWalk(t, codeAsPre,
                 IF LoopCondition(w) THEN WalkIteration(t, codeAsPre, w)
                 ELSE WalkEnd(w),
                 seen \cup {w})

collapseWhitespace(t, codeAsPre) == RunWalk(t, codeAsPre, WalkStart(t, codeAsPre), {})

\* turndown.cpp's encodeNbsp
RECURSIVE encodeNbsp(_)
encodeNbsp(text) ==
    IF text = <<>> THEN <<>>
    ELSE IF Len(text) >= 2 /\ text[1] = ByteC2 /\ text[2] = ByteA0
         THEN NbspEntity \o encodeNbsp(SubSeq(text, 3, Len(text)))
         ELSE <<Head(text)>> \o encodeNbsp(Tail(text))

\* env is [t, options, rules, ctx]: the tree, the options, the rule lists
\* and the collapse context getNodeText reads.
processTextNode(env, n, meta) ==
    LET text == getNodeText(env.t, n, env.ctx)
    IN IF text = <<>> THEN <<>>
       ELSE IF meta.isCode THEN text
       ELSE escapeFunction(env.options.escapeFunction, text)

RECURSIVE processNode(_, _, _)
RECURSIVE processChildrenOf(_, _, _, _)
RECURSIVE replacementForNode(_, _, _, _)

\* the body of processChildren's loop once the child is reduced to addition
joinAddition(env, kids, output, addition) ==
    IF addition.exc # "none" THEN addition
    ELSE processChildrenOf(env, Tail(kids), joinChunks(output, addition.out),
                           addition.refs)

\* the loop of processChildren, from the child at the head of kids on
processChildrenOf(env, kids, output, refs) ==
    IF kids = <<>> THEN Ok(output, refs)
    ELSE joinAddition(env, kids, output, processNode(env, Head(kids), refs))

processChildren(env, n, refs) ==
    processChildrenOf(env, child_range(env.t, n), <<>>, refs)

processNode(env, n, refs) ==
    IF n = Null THEN Ok(<<>>, refs)
    ELSE IF is_text_like(env.t, n)
         THEN Ok(processTextNode(env, n,
                    analyzeNode(env.t, n, env.options.preformattedCode, env.ctx)),
                 refs)
    ELSE IF is_element(env.t, n)
         THEN replacementForNode(env, n, refs,
                    analyzeNode(env.t, n, env.options.preformattedCode, env.ctx))
    ELSE Ok(<<>>, refs)

\* replacementForNode from the rule's replacement on: the flanking
\* whitespace goes around what the replacement returned.
withFlankingWhitespace(flank, converted) ==
    IF converted.exc # "none" THEN converted
    ELSE Ok(flank.leading \o converted.out \o flank.trailing, converted.refs)

\* replacementForNode from rules.forNode on, found being the rule it chose
applyRule(env, n, meta, children, found) ==
    IF found.threw THEN Thrown("std::bad_function_call", children.refs)
    ELSE withFlankingWhitespace(
             meta.flankingWhitespace,
             Replacement(found.rule.replacement,
                         IF \/ meta.flankingWhitespace.leading # <<>>
                            \/ meta.flankingWhitespace.trailing # <<>>
                         THEN trimStr(children.out) ELSE children.out,
                         env.t, n, env.options, children.refs, env.ctx))

\* replacementForNode once the children are reduced
replaceReduced(env, n, meta, children) ==
    IF children.exc # "none" THEN children
    ELSE IF tag_name(env.t, n) \in env.options.keepTags
         THEN Ok(serializeNode(env.t, n), children.refs)
    ELSE applyRule(env, n, meta, children,
                   forNode(env.rules, env.t, n, env.options, env.ctx))

replacementForNode(env, n, refs, meta) ==
    replaceReduced(env, n, meta, processChildren(env, n, refs))

\* rules.forEach in runPipeline: the append of every rule of the main list
\* that has one, joined to the Markdown in the order of the list.
RECURSIVE AppendAll(_, _, _)
AppendAll(rulesArray, markdown, refs) ==
    IF rulesArray = <<>> THEN Ok(markdown, refs)
    ELSE IF Head(rulesArray).append = "referenceLink"
         THEN AppendAll(Tail(rulesArray),
                        joinChunks(markdown, referenceLinkAppend(refs)), <<>>)
         ELSE AppendAll(Tail(rulesArray), markdown, refs)

trimTrailingWhitespace(text) ==
    SubSeq(text, 1, Len(text) - CountTrailing(text, {SP, TAB, LF, CR}))

\* The context setWhitespaceCollapseContext engages for a finished walk
ContextOf(collapsed) ==
    [engaged |-> TRUE, text |-> collapsed.textReplacements,
     skip |-> collapsed.nodesToOmit]

\* runPipeline after ensureRules, on the rule lists it returned:
\* [kind, markdown, exc, refs, ctx, table], with kind "returned", "threw"
\* (exc is the exception that left the call) or "hung" (the call never
\* ends); refs is the reference accumulator and ctx the collapse context
\* the call leaves behind, table the references the append wrote out.

\* runPipeline without the encodeNbsp that follows the appends
finishPipeline_AppendsNotEncoded(table, appended) ==
    [kind |-> "returned",
     markdown |-> trimTrailingWhitespace(trimLeadingNewlines(appended.out)),
     exc |-> "none", refs |-> appended.refs, ctx |-> NoContext, table |-> table]

\* runPipeline from rules.forEach on
finishPipeline(table, appended) ==
    [kind |-> "returned",
     markdown |-> trimTrailingWhitespace(trimLeadingNewlines(encodeNbsp(appended.out))),
     exc |-> "none", refs |-> appended.refs, ctx |-> NoContext, table |-> table]

\* runPipeline from clearWhitespaceCollapseContext on, which an exception
\* of the reduction skips
afterReduction(rules, ctx, reduced) ==
    IF reduced.exc # "none"
    THEN [kind |-> "threw", markdown |-> <<>>, exc |-> reduced.exc,
          refs |-> reduced.refs, ctx |-> ctx, table |-> <<>>]
    ELSE finishPipeline(reduced.refs,
             AppendAll(rules.rulesArray, encodeNbsp(reduced.out), reduced.refs))

\* runPipeline from setWhitespaceCollapseContext on
reduceCollapsed(rules, options, t, collapsed) ==
    IF collapsed.pc = "hung"
    THEN [kind |-> "hung", markdown |-> <<>>, exc |-> "none",
          refs |-> rules.referenceStore, ctx |-> NoContext, table |-> <<>>]
    ELSE afterReduction(rules, ContextOf(collapsed),
             processChildren([t |-> t, options |-> options, rules |-> rules,
                              ctx |-> ContextOf(collapsed)],
                             0, rules.referenceStore))

runPipeline(rules, options, t) ==
    reduceCollapsed(rules, options, t, collapseWhitespace(t, options.preformattedCode))

---------------------------------------------------------------------------
(* turndown.cpp: TurndownService *)

CommonMarkKeys ==
    <<"paragraph", "lineBreak", "h1", "h2", "h3", "h4", "h5", "h6",
      "blockquote", "list", "listItem", "indentedCodeBlock", "fencedCodeBlock",
      "horizontalRule", "inlineLink", "referenceLink", "emphasis", "strong",
      "code", "image">>

CommonMarkRule(key) ==
    MakeRule([fn |-> key, tags |-> {}], key,
             IF key = "referenceLink" THEN "referenceLink" ELSE Empty, <<key>>)

RECURSIVE AddCommonMarkRules(_, _)
AddCommonMarkRules(rules, keys) ==
    IF keys = <<>> THEN rules
    ELSE AddCommonMarkRules(
             Rules_addRule(rules, <<Head(keys)>>, CommonMarkRule(Head(keys))),
             Tail(keys))

\* a fresh referenceStore comes with every call
defineCommonMarkRules(rules) ==
    [AddCommonMarkRules(rules, CommonMarkKeys) EXCEPT !.referenceStore = <<>>]

\* The rule of the README's addRule example
strikethroughRule ==
    MakeRule([fn |-> "hasTagIn", tags |-> {"del", "s", "strike"}],
             "strikethrough", Empty, <<>>)

\* The rule of the factory in the test RuleFactoryBeforeDefaultsOverridesParagraph
wrappedParagraphRule ==
    MakeRule([fn |-> "hasTagIn", tags |-> {"p"}], "wrappedParagraph", Empty, <<>>)

\* A rule factory builds its rule anew at every call.
InvokeFactory(factory, rules) ==
    CASE factory = "strikethroughFactory" ->
            Rules_addRule(rules, <<"strikethrough">>, strikethroughRule)
      [] factory = "wrappedParagraphFactory" ->
            Rules_addRule(rules, <<"wrappedParagraph">>, wrappedParagraphRule)

RECURSIVE InvokeFactories(_, _)
InvokeFactories(factories, rules) ==
    IF factories = <<>> THEN rules
    ELSE InvokeFactories(Tail(factories), InvokeFactory(Head(factories), rules))

\* The closures TurndownService queues in ruleMutations_: what each holds.
AddRuleMutation(key, rule) == [op |-> "addRule", key |-> key, rule |-> rule, tag |-> ""]
KeepMutation(tag) == [op |-> "keep", key |-> <<>>, rule |-> MovedFromRule, tag |-> tag]
RemoveMutation(tag) == [op |-> "remove", key |-> <<>>, rule |-> MovedFromRule, tag |-> tag]

\* One call of a queued closure: [rules, mutation].  addRule's closure is
\* mutable and moves its Rule into the rule set; emptied says whether the
\* build leaves an std::function that was moved from empty.
InvokeMutation(m, rules, emptied) ==
    CASE m.op = "addRule" ->
            [rules |-> Rules_addRule(rules, m.key, m.rule),
             mutation |-> IF emptied THEN [m EXCEPT !.rule = MovedFromRule] ELSE m]
      [] m.op = "keep" -> [rules |-> Rules_keep(rules, m.tag), mutation |-> m]
      [] m.op = "remove" -> [rules |-> Rules_remove(rules, m.tag), mutation |-> m]

\* [rules, mutations] after the loop over ruleMutations_
RECURSIVE ReplayMutations(_, _, _, _)
ReplayMutations(todo, done, rules, emptied) ==
    IF todo = <<>> THEN [rules |-> rules, mutations |-> done]
    ELSE LET call == InvokeMutation(Head(todo), rules, emptied)
         IN ReplayMutations(Tail(todo), Append(done, call.mutation),
                            call.rules, emptied)

\* TurndownService(options)
NewService(options) ==
    [options |-> options, built |-> FALSE, rules |-> NewRules,
     preRuleFactories |-> <<>>, postRuleFactories |-> <<>>,
     ruleMutations |-> <<>>]

invalidateRules(s) == [s EXCEPT !.built = FALSE, !.rules = NewRules]

ensureRules(s, emptied) ==
    IF s.built THEN s
    ELSE LET defaults == defineCommonMarkRules(NewRules)
             factored == InvokeFactories(s.postRuleFactories,
                             InvokeFactories(s.preRuleFactories, defaults))
             replayed == ReplayMutations(s.ruleMutations, <<>>, factored, emptied)
         IN [s EXCEPT !.built = TRUE, !.rules = replayed.rules,
                      !.ruleMutations = replayed.mutations]

\* enqueueRuleMutation that records the mutation and applies it to nothing
enqueueRuleMutation_RecordOnly(s, m, emptied) ==
    [s EXCEPT !.ruleMutations = Append(@, m)]

enqueueRuleMutation(s, m, emptied) ==
    [s EXCEPT !.ruleMutations = Append(@, m),
              !.rules = IF s.built THEN InvokeMutation(m, @, emptied).rules ELSE @]

\* The functions handed to configureOptions
ApplyOptionEdit(fn, options) ==
    CASE fn = "referenced" -> [options EXCEPT !.linkStyle = "referenced"]
      [] fn = "inlined" -> [options EXCEPT !.linkStyle = "inlined"]
      [] fn = "collapsed" -> [options EXCEPT !.linkReferenceStyle = "collapsed"]
      [] fn = "shortcut" -> [options EXCEPT !.linkReferenceStyle = "shortcut"]
      [] fn = "preformattedCode" -> [options EXCEPT !.preformattedCode = TRUE]

\* The three lists of a rule set, without the accumulator behind them
RuleLists(rules) ==
    [rulesArray |-> rules.rulesArray, keepRules |-> rules.keepRules,
     removeRules |-> rules.removeRules]

---------------------------------------------------------------------------
(* The variables a specification does not use stay at these values *)

IdleTree == [size |-> 0, kind |-> [i \in {0} |-> Elem("div")],
             parent |-> <<>>]

IdleCollapse ==
    /\ tree = IdleTree
    /\ treatCodeAsPre = FALSE
    /\ walk = WalkStart(IdleTree, FALSE)

NotCalled == [called |-> FALSE, value |-> <<>>]

IdleCall ==
    /\ args = <<>>
    /\ ret = NotCalled

\* gCollapse as utilities.cpp initializes it; dangling says that text and
\* skip point at tables that were destroyed.
ClearedContext ==
    [engaged |-> FALSE, text |-> EmptyMap, skip |-> {}, dangling |-> FALSE]

NoConversion ==
    [kind |-> "none", markdown |-> <<>>, exc |-> "none", doc |-> IdleTree,
     options |-> DefaultOptions, rules |-> RuleLists(NewRules),
     refsAtStart |-> <<>>, table |-> <<>>]

EmptyLog == [calls |-> 0, added |-> {}, hist |-> {}]

IdleService ==
    /\ svc = NewService(DefaultOptions)
    /\ gCollapse = ClearedContext
    /\ conv = NoConversion
    /\ log = EmptyLog
    /\ movedFromIsEmpty = TRUE

IdleRules == ruleSet = NewRules
IdleThreads == threads = <<>>

---------------------------------------------------------------------------
(* The collapse walk as a state machine: one action per loop iteration *)

CollapseTexts == {<<SP>>, <<"a">>, <<SP, "a">>, <<"a", SP>>, <<SP, LF>>}

CollapseKinds ==
    {Elem("div"), Elem("span"), Elem("br"), Elem("img"), Elem("pre"),
     Elem("code"), Cmt} \cup {Txt(s) : s \in CollapseTexts}

CollapseRoots == {Elem("div")}

InitCollapse ==
    /\ tree \in UNION {TreesOver(r, CollapseKinds, MaxNodes) : r \in CollapseRoots}
    /\ treatCodeAsPre \in BOOLEAN
    /\ walk = WalkStart(tree, treatCodeAsPre)
    /\ IdleCall
    /\ IdleService
    /\ IdleRules
    /\ IdleThreads

WalkStep ==
    /\ walk.pc = "loop"
    /\ LoopCondition(walk)
    /\ walk' = WalkIteration(tree, treatCodeAsPre, walk)
    /\ tree' = TreeAfterIteration(tree, treatCodeAsPre, walk)
    /\ UNCHANGED <<treatCodeAsPre, callVars, serviceVars, ruleSet, threads>>

WalkFinish ==
    /\ walk.pc = "loop"
    /\ ~LoopCondition(walk)
    /\ walk' = WalkEnd(walk)
    /\ UNCHANGED <<tree, treatCodeAsPre, callVars, serviceVars, ruleSet, threads>>

NextCollapse == WalkStep \/ WalkFinish

SpecCollapse == InitCollapse /\ [][NextCollapse]_vars

\* collapseWhitespace is a plain loop on one thread: it keeps running.
FairSpecCollapse == SpecCollapse /\ WF_vars(NextCollapse)

---------------------------------------------------------------------------
(* Properties of the collapse walk *)

\* C1: collapseWhitespace terminates for every finite tree with a root that
\* is not preformatted: the walk driven by nextNode / afterRemoval comes back
\* to the root and the function returns its table, whichever nodes were
\* omitted on the way.
C1_WalkTerminates == <>(walk.pc = "done")

---------------------------------------------------------------------------
(* joinChunks called on every pair of short chunks *)

StringsOver(alphabet, maxLen) ==
    UNION {[1..n -> alphabet] : n \in 0..maxLen}

JoinStrings == StringsOver({"x", LF, CR}, MaxJoinLen)

InitJoin ==
    /\ args \in JoinStrings \X JoinStrings
    /\ ret = NotCalled
    /\ IdleCollapse
    /\ IdleService
    /\ IdleRules
    /\ IdleThreads

CallJoinChunks ==
    /\ ~ret.called
    /\ ret' = [called |-> TRUE, value |-> joinChunks(args[1], args[2])]
    /\ UNCHANGED <<args, collapseVars, serviceVars, ruleSet, threads>>

NextJoin == CallJoinChunks

SpecJoin == InitJoin /\ [][NextJoin]_vars

\* The number of CR / LF characters at the end and at the start of a chunk.
TrailingRun(s) ==
    CHOOSE k \in 0..Len(s) :
        /\ \A i \in (Len(s) - k + 1)..Len(s) : s[i] \in {CR, LF}
        /\ k < Len(s) => s[Len(s) - k] \notin {CR, LF}

LeadingRun(s) ==
    CHOOSE k \in 0..Len(s) :
        /\ \A i \in 1..k : s[i] \in {CR, LF}
        /\ k < Len(s) => s[k + 1] \notin {CR, LF}

\* C10: joinChunks(a, b) is b when a is empty and a when b is empty;
\* otherwise it is a without its trailing CR/LF run, then n line feeds, then
\* b without its leading CR/LF run, where n is the longer of the two stripped
\* runs, capped at 2.
C10_JoinChunks ==
    ret.called =>
        LET a == args[1]
            b == args[2]
            ka == TrailingRun(a)
            kb == LeadingRun(b)
            n == Min(2, Max(ka, kb))
        IN IF a = <<>> THEN ret.value = b
           ELSE IF b = <<>> THEN ret.value = a
           ELSE ret.value = SubSeq(a, 1, Len(a) - ka) \o Repeat(LF, n)
                              \o SubSeq(b, kb + 1, Len(b))

\* Two chunks that are not empty, with three newlines to strip on one side
\* and one on the other: the junction holds exactly two line feeds.
C10_Witness ==
    /\ ret.called
    /\ args = << <<"x", LF, CR, LF>>, <<LF, "x">> >>
    /\ ret.value = <<"x", LF, LF, "x">>

---------------------------------------------------------------------------
(* One TurndownService and the calls made on it, one after another *)

\* TurndownService::turndown(root): ensureRules, then runPipeline.  A call
\* that never ends leaves the thread in it: nothing is called after it.
\* TurndownEnds is the state the call leaves, outcome being what runPipeline
\* did.
TurndownEnds(doc, s, outcome) ==
    /\ svc' = [s EXCEPT !.rules.referenceStore = outcome.refs]
    /\ gCollapse' =
         CASE outcome.kind = "hung" -> gCollapse
           [] outcome.kind = "threw" ->
                 [engaged |-> TRUE, text |-> outcome.ctx.text,
                  skip |-> outcome.ctx.skip, dangling |-> TRUE]
           [] outcome.kind = "returned" -> ClearedContext
    /\ conv' = [kind |-> outcome.kind, markdown |-> outcome.markdown,
                exc |-> outcome.exc, doc |-> doc, options |-> s.options,
                rules |-> RuleLists(s.rules),
                refsAtStart |-> s.rules.referenceStore,
                table |-> outcome.table]
    /\ log' = [log EXCEPT
                 !.calls = @ + 1,
                 !.hist = IF outcome.kind = "returned"
                          THEN @ \cup {[doc |-> doc, options |-> s.options,
                                        rules |-> RuleLists(s.rules),
                                        markdown |-> outcome.markdown]}
                          ELSE @]
    /\ UNCHANGED <<collapseVars, callVars, movedFromIsEmpty, ruleSet, threads>>

\* runPipeline on the service s that ensureRules left
TurndownWith(doc, s) ==
    TurndownEnds(doc, s, runPipeline(s.rules, s.options, doc))

TurndownOn(doc) ==
    /\ conv.kind # "hung"
    /\ TurndownWith(doc, ensureRules(svc, movedFromIsEmpty))

Link(href) == [Elem("a") EXCEPT !.href = href]
Ol(start) == [Elem("ol") EXCEPT !.start = start]

\* The tree with the nodes kinds[1], kinds[2], ... below a <body> root
MkTree(kinds, parents) ==
    [size |-> Len(kinds),
     kind |-> [i \in 0..Len(kinds) |-> IF i = 0 THEN Elem("body") ELSE kinds[i]],
     parent |-> parents]

\* <a href="u">x</a>
DocLink == MkTree(<<Link(<<"u">>), Txt(<<"x">>)>>, <<0, 1>>)
\* <a href="u">x</a><ol start="x"><li>y</li></ol>
DocLinkBadList ==
    MkTree(<<Link(<<"u">>), Txt(<<"x">>), Ol(<<"x">>), Elem("li"), Txt(<<"y">>)>>,
           <<0, 1, 0, 3, 4>>)
\* <del>x</del>
DocDel == MkTree(<<Elem("del"), Txt(<<"x">>)>>, <<0, 1>>)

\* <p>x</p>
DocP == MkTree(<<Elem("p"), Txt(<<"x">>)>>, <<0, 1>>)

ServiceDocs == {DocLink, DocLinkBadList, DocDel, DocP}
Factories == {"strikethroughFactory", "wrappedParagraphFactory"}
OptionEdits == {"referenced", "collapsed"}
MutationTags == {"del"}
Placements == {"BeforeDefaults", "AfterDefaults"}

InitService ==
    /\ svc \in {NewService(DefaultOptions),
                NewService([DefaultOptions EXCEPT !.linkStyle = "referenced"])}
    /\ gCollapse = ClearedContext
    /\ conv = NoConversion
    /\ log = EmptyLog
    /\ movedFromIsEmpty \in BOOLEAN
    /\ IdleCollapse
    /\ IdleCall
    /\ IdleRules
    /\ IdleThreads

Called == log' = [log EXCEPT !.calls = @ + 1]
Callable == conv.kind # "hung" /\ log.calls < MaxCalls

Turndown ==
    \E doc \in ServiceDocs : Callable /\ TurndownOn(doc)

ConfigureOptions ==
    \E fn \in OptionEdits :
        /\ Callable
        /\ svc' = invalidateRules([svc EXCEPT !.options = ApplyOptionEdit(fn, @)])
        /\ Called
        /\ UNCHANGED <<gCollapse, conv, movedFromIsEmpty, collapseVars, callVars, ruleSet, threads>>

AddRule ==
    /\ Callable
    /\ svc' = enqueueRuleMutation(svc,
                  AddRuleMutation(<<"strikethrough">>, strikethroughRule),
                  movedFromIsEmpty)
    /\ log' = [log EXCEPT
                 !.calls = @ + 1,
                 !.added = @ \cup {[strikethroughRule EXCEPT !.key = <<"strikethrough">>]}]
    /\ UNCHANGED <<gCollapse, conv, movedFromIsEmpty, collapseVars, callVars, ruleSet, threads>>

RegisterRuleFactory ==
    \E placement \in Placements, factory \in Factories :
        /\ Callable
        /\ svc' = invalidateRules(
                     IF placement = "BeforeDefaults"
                     THEN [svc EXCEPT !.preRuleFactories = Append(@, factory)]
                     ELSE [svc EXCEPT !.postRuleFactories = Append(@, factory)])
        /\ Called
        /\ UNCHANGED <<gCollapse, conv, movedFromIsEmpty, collapseVars, callVars, ruleSet, threads>>

Keep ==
    \E tag \in MutationTags :
        /\ Callable
        /\ svc' = enqueueRuleMutation(svc, KeepMutation(tag), movedFromIsEmpty)
        /\ Called
        /\ UNCHANGED <<gCollapse, conv, movedFromIsEmpty, collapseVars, callVars, ruleSet, threads>>

Remove ==
    \E tag \in MutationTags :
        /\ Callable
        /\ svc' = enqueueRuleMutation(svc, RemoveMutation(tag), movedFromIsEmpty)
        /\ Called
        /\ UNCHANGED <<gCollapse, conv, movedFromIsEmpty, collapseVars, callVars, ruleSet, threads>>

NextService ==
    \/ Turndown
    \/ ConfigureOptions
    \/ AddRule
    \/ RegisterRuleFactory
    \/ Keep
    \/ Remove

SpecService == InitService /\ [][NextService]_vars

BuiltInRuleLists == RuleLists(defineCommonMarkRules(NewRules))

\* the <a> elements of a tree that have a non-empty href
LinksOf(t) ==
    {n \in 1..t.size : is_element(t, n) /\ tag_name(t, n) = "a"
                        /\ attribute(t, n, "href") # <<>>}

\* C2: once the rule set is rebuilt, it contains every rule that addRule was
\* given, with the filter and the replacement it was given with.
C2_AddedRulesStay ==
    svc.built =>
        \A rule \in log.added :
            \E i \in 1..Len(svc.rules.rulesArray) : svc.rules.rulesArray[i] = rule

\* C4: a conversion with link style referenced starts with an empty reference
\* accumulator, whatever ran on the service before it.
C4_FreshAccumulator ==
    (conv.kind # "none" /\ conv.options.linkStyle = "referenced")
        => conv.refsAtStart = <<>>

\* C8: two conversions that returned, given the same tree, options and rule
\* set, returned the same string.
C8_PureFunction ==
    \A h1, h2 \in log.hist :
        (h1.doc = h2.doc /\ h1.options = h2.options /\ h1.rules = h2.rules)
            => h1.markdown = h2.markdown

\* C9: a conversion with link style referenced and the built-in rule set emits
\* a reference table with one entry per <a> element with a non-empty href.
C9_TableCountsLinks ==
    (conv.kind = "returned" /\ conv.options.linkStyle = "referenced"
        /\ conv.rules = BuiltInRuleLists)
        => Len(conv.table) = Cardinality(LinksOf(conv.doc))

\* C28: after a conversion that ended by an exception raised inside a rule,
\* the collapse context is disengaged and points at no table of the call,
\* and the reference accumulator of the service is empty.
C28_ExceptionRestoresSharedState ==
    conv.kind = "threw" =>
        /\ ~gCollapse.engaged
        /\ ~gCollapse.dangling
        /\ svc.rules.referenceStore = <<>>

\* The rule set of one service under addRule, keep, remove, the calls that
\* invalidate it, and conversions of <del>x</del>
InitMutations ==
    /\ svc = NewService(DefaultOptions)
    /\ gCollapse = ClearedContext
    /\ conv = NoConversion
    /\ log = EmptyLog
    /\ movedFromIsEmpty \in BOOLEAN
    /\ IdleCollapse
    /\ IdleCall
    /\ IdleRules
    /\ IdleThreads

TurndownDel == Callable /\ TurndownOn(DocDel)

NextMutations ==
    \/ TurndownDel
    \/ ConfigureOptions
    \/ AddRule
    \/ RegisterRuleFactory
    \/ Keep
    \/ Remove

SpecMutations == InitMutations /\ [][NextMutations]_vars

\* the keys of the three lists of a rule set, in list order
KeyOrder(rules) ==
    [rulesArray |-> [i \in 1..Len(rules.rulesArray) |-> rules.rulesArray[i].key],
     keepRules |-> [i \in 1..Len(rules.keepRules) |-> rules.keepRules[i].key],
     removeRules |-> [i \in 1..Len(rules.removeRules) |-> rules.removeRules[i].key]]

\* the rule set that comes of the CommonMark rules, then the factories of
\* the service, then every recorded mutation in call order
ReplayedRules ==
    ReplayMutations(svc.ruleMutations, <<>>,
                    InvokeFactories(svc.postRuleFactories,
                        InvokeFactories(svc.preRuleFactories,
                                        defineCommonMarkRules(NewRules))),
                    FALSE).rules

ParagraphsOf(t) == {n \in 1..t.size : has_tag(t, n, "p")}

\* C17: a conversion on a service that has a BeforeDefaults factory adding a
\* rule for <p> converts a <p> element with the factory's rule, not with the
\* built-in paragraph rule: the output for <p>x</p> begins with [[x]], in the
\* first conversion and in every conversion after a rebuild of the rule set.
C17_FactoryRuleOverBuiltIn ==
    [][(/\ log'.calls = log.calls + 1
        /\ svc'.built
        /\ Len(svc'.ruleMutations) = Len(svc.ruleMutations)
        /\ ParagraphsOf(conv'.doc) # {}
        /\ \E i \in 1..Len(svc.preRuleFactories) :
               svc.preRuleFactories[i] = "wrappedParagraphFactory")
          => /\ conv'.kind = "returned"
             /\ Len(conv'.markdown) >= 5
             /\ SubSeq(conv'.markdown, 1, 5) = <<"[", "[", "x", "]", "]">>]_vars

---------------------------------------------------------------------------
(* A Rules object: rules are added, then forNode is asked about an element *)

\* the bound on the addRule, keep and remove calls made on the Rules object
MaxRuleCalls == 3

\* the keys addRule is called with, those of the README's examples
AddedKeys == {<<"strikethrough">>, <<"custom">>}

\* the rules addRule is called with
AddedRules == {strikethroughRule, wrappedParagraphRule}

\* the addRule, keep and remove calls made on rules after its construction
RuleCalls(rules) ==
    Cardinality({i \in 1..Len(rules.rulesArray) :
                    rules.rulesArray[i].key \in AddedKeys})
        + Len(rules.keepRules) + Len(rules.removeRules)

\* forNode is const: the calls that build the Rules object come first
Buildable == ~ret.called /\ RuleCalls(ruleSet) < MaxRuleCalls

\* <tag>text</tag> below the root, without the text node when text is empty
ElementDoc(tag, text) ==
    IF text = <<>> THEN MkTree(<<Elem(tag)>>, <<0>>)
    ELSE MkTree(<<Elem(tag), Txt(text)>>, <<0, 1>>)

RuleDocs ==
    {ElementDoc(tag, text) : tag \in {"del", "p", "span"}, text \in {<<>>, <<"x">>}}
        \cup {ElementDoc("br", <<>>)}
RuleTags == {"del", "p"}

InitRules ==
    /\ ruleSet \in {NewRules, defineCommonMarkRules(NewRules)}
    /\ IdleCollapse
    /\ IdleCall
    /\ IdleService
    /\ IdleThreads

RulesAddRule ==
    \E key \in AddedKeys, rule \in AddedRules :
        /\ Buildable
        /\ ruleSet' = Rules_addRule(ruleSet, key, rule)
        /\ UNCHANGED <<collapseVars, callVars, serviceVars, threads>>

RulesKeep ==
    \E tag \in RuleTags :
        /\ Buildable
        /\ ruleSet' = Rules_keep(ruleSet, tag)
        /\ UNCHANGED <<collapseVars, callVars, serviceVars, threads>>

RulesKeepTags ==
    /\ Buildable
    /\ ruleSet' = Rules_keepTags(ruleSet, RuleTags)
    /\ UNCHANGED <<collapseVars, callVars, serviceVars, threads>>

RulesRemove ==
    \E tag \in RuleTags :
        /\ Buildable
        /\ ruleSet' = Rules_remove(ruleSet, tag)
        /\ UNCHANGED <<collapseVars, callVars, serviceVars, threads>>

\* rules.forNode(node) for the element of one of the documents
ForNode ==
    \E doc \in RuleDocs :
        /\ args' = <<ruleSet, doc, 1>>
        /\ ret' = [called |-> TRUE,
                   value |-> forNode(ruleSet, doc, 1, DefaultOptions, NoContext)]
        /\ UNCHANGED <<collapseVars, serviceVars, ruleSet, threads>>

NextRules ==
    \/ RulesAddRule
    \/ RulesKeep
    \/ RulesKeepTags
    \/ RulesRemove
    \/ ForNode

SpecRules == InitRules /\ [][NextRules]_vars

\* the rules of a list whose filter accepts the element
Matching(list, t, n) ==
    {i \in 1..Len(list) : FilterHolds(list[i].filter, t, n, DefaultOptions)}

\* C3: forNode returns the blank rule for an element that is blank and not
\* void; else the first rule of the main list that matches; else the first
\* keep rule that matches; else the first remove rule that matches; else
\* the default rule.
C3_ForNodePrecedence ==
    (ret.called /\ Len(args) = 3) =>
        LET rules == args[1]
            t == args[2]
            n == args[3]
            main == Matching(rules.rulesArray, t, n)
            kept == Matching(rules.keepRules, t, n)
            removed == Matching(rules.removeRules, t, n)
            expected ==
                CASE ~isVoid(t, n) /\ isBlank(t, n, NoContext) -> blankRule
                  [] OTHER ->
                     IF main # {} THEN rules.rulesArray[SetMin(main)]
                     ELSE IF kept # {} THEN rules.keepRules[SetMin(kept)]
                     ELSE IF removed # {} THEN rules.removeRules[SetMin(removed)]
                     ELSE defaultRule
        IN ret.value = [rule |-> expected, threw |-> FALSE]

\* forNode was asked about a <del>x</del> that a keep rule and a remove rule
\* both match and no rule of the main list does: it chose the keep rule.
C3_Witness ==
    /\ ret.called /\ Len(args) = 3
    /\ tag_name(args[2], 1) = "del"
    /\ ~isBlank(args[2], 1, NoContext)
    /\ Matching(args[1].rulesArray, args[2], 1) = {}
    /\ Matching(args[1].keepRules, args[2], 1) # {}
    /\ Matching(args[1].removeRules, args[2], 1) # {}
    /\ ret.value.rule.replacement = "keepReplacement"

\* how many times a rule occurs in a list
Occurrences(list, rule) == Cardinality({i \in 1..Len(list) : list[i] = rule})

\* the rule a call added to a list: the one the new list holds once more
AddedTo(old, new) ==
    CHOOSE rule \in {new[i] : i \in 1..Len(new)} :
        Occurrences(new, rule) = Occurrences(old, rule) + 1

\* the elements forNode does not give the blank rule
Unblank == {doc \in RuleDocs : isVoid(doc, 1) \/ ~isBlank(doc, 1, NoContext)}

\* the first rule of a list that matches the element of doc, if there is one
FirstMatch(list, doc) ==
    IF Matching(list, doc, 1) = {} THEN <<>>
    ELSE <<list[SetMin(Matching(list, doc, 1))]>>

RuleOf(rules, doc) == forNode(rules, doc, 1, DefaultOptions, NoContext)

\* C16: in each rule list the entry added last wins.  A call of addRule makes
\* its rule the one forNode selects for every element the rule matches,
\* whether the rules that matched before were added with addRule or are
\* built-in CommonMark rules, and leaves the selection for every other element
\* as it was; a call of keep makes its filter the first keep filter that
\* matches an element, and the keep rule forNode selects when no rule of the
\* main list matches, and leaves the first keep filter of every other element
\* as it was.
C16_LatestAddedWins ==
    [][/\ Len(ruleSet'.rulesArray) = Len(ruleSet.rulesArray) + 1 =>
            \A doc \in Unblank :
                IF FilterHolds(AddedTo(ruleSet.rulesArray, ruleSet'.rulesArray).filter,
                               doc, 1, DefaultOptions)
                THEN RuleOf(ruleSet', doc) =
                        [rule |-> AddedTo(ruleSet.rulesArray, ruleSet'.rulesArray),
                         threw |-> FALSE]
                ELSE RuleOf(ruleSet', doc) = RuleOf(ruleSet, doc)
       /\ Len(ruleSet'.keepRules) = Len(ruleSet.keepRules) + 1 =>
            \A doc \in Unblank :
                IF FilterHolds(AddedTo(ruleSet.keepRules, ruleSet'.keepRules).filter,
                               doc, 1, DefaultOptions)
                THEN /\ FirstMatch(ruleSet'.keepRules, doc) =
                            <<AddedTo(ruleSet.keepRules, ruleSet'.keepRules)>>
                     /\ Matching(ruleSet'.rulesArray, doc, 1) = {} =>
                            RuleOf(ruleSet', doc).rule =
                                AddedTo(ruleSet.keepRules, ruleSet'.keepRules)
                ELSE FirstMatch(ruleSet'.keepRules, doc) =
                        FirstMatch(ruleSet.keepRules, doc)]_vars

\* forNode was asked about a <p>x</p> that two rules added with addRule under
\* different keys, the built-in paragraph rule and two keep filters all
\* match: it chose an added rule, not the built-in one.
C16_Witness ==
    /\ ret.called /\ Len(args) = 3
    /\ tag_name(args[2], 1) = "p"
    /\ ~isBlank(args[2], 1, NoContext)
    /\ {args[1].rulesArray[i].key : i \in Matching(args[1].rulesArray, args[2], 1)}
            = AddedKeys \cup {<<"paragraph">>}
    /\ ret.value.rule.replacement = "wrappedParagraph"

\* forNode was asked about a <del>x</del> that no rule of the main list
\* matches and that keep("del") and keep({"del", "p"}) both match, the call
\* with the two tags being the later one: it chose that one.
C16_WitnessKeep ==
    /\ ret.called /\ Len(args) = 3
    /\ tag_name(args[2], 1) = "del"
    /\ ~isBlank(args[2], 1, NoContext)
    /\ Matching(args[1].rulesArray, args[2], 1) = {}
    /\ Len(args[1].keepRules) = 2
    /\ args[1].keepRules[2].key = <<"keep-", "del">>
    /\ ret.value.rule.key = <<"keep-", "multi">>

---------------------------------------------------------------------------
(* One conversion on a new TurndownService, over the trees of a few nodes *)

\* the most nodes below the root of a converted tree
MaxConvertNodes == 3

\* a numeral above INT_MAX
TenDigits == <<"9", "9", "9", "9", "9", "9", "9", "9", "9", "9">>

ConvertKinds ==
    {Elem("p"), Elem("li"), Elem("br"), Link(<<"u">>),
     Ol(<<>>), Ol(<<"3">>), Ol(<<"x">>), Ol(TenDigits),
     Txt(<<"x">>), Txt(<<"x", FF>>), Txt(<<SP>>)}

\* the documents of at most maxN nodes below a <body> root
DocsOver(kinds, maxN) == TreesOver(Elem("body"), kinds, maxN)

InitConvert ==
    /\ svc \in {NewService(DefaultOptions),
                NewService([DefaultOptions EXCEPT !.linkStyle = "referenced"])}
    /\ gCollapse = ClearedContext
    /\ conv = NoConversion
    /\ log = EmptyLog
    /\ movedFromIsEmpty = TRUE
    /\ IdleCollapse
    /\ IdleCall
    /\ IdleRules
    /\ IdleThreads

Convert ==
    \E doc \in DocsOver(ConvertKinds, MaxConvertNodes) :
        /\ log.calls = 0
        /\ TurndownOn(doc)

NextConvert == Convert

SpecConvert == InitConvert /\ [][NextConvert]_vars

\* C5: a conversion with the built-in rule set does not end in an exception.
C5_NeverRaises ==
    (conv.kind # "none" /\ conv.rules = BuiltInRuleLists) => conv.kind # "threw"

\* C7: the string a conversion returns does not begin with CR or LF and does
\* not end with an ASCII white space character.
C7_TrimmedEdges ==
    (conv.kind = "returned" /\ conv.markdown # <<>>) =>
        /\ Head(conv.markdown) \notin {CR, LF}
        /\ ~isAsciiWhitespaceCodePoint(Last(conv.markdown))

---------------------------------------------------------------------------
(* Two threads, each converting its own tree on its own TurndownService.
   A thread takes runPipeline in steps: it collapses its tree and sets the
   collapse context, reduces the children of its root one at a time, then
   clears the context and finishes the string.  gCollapse is one object
   for the whole process.  A node handle is a pointer: the tables of one
   tree hold no handle of the other, which <<thread, node>> stands for. *)

ThreadIds == {1, 2}

\* <p>x  y</p>z, a  b and <a href="u">x</a>
ThreadDocs ==
    {MkTree(<<Elem("p"), Txt(<<"x", SP, SP, "y">>), Txt(<<"z">>)>>, <<0, 1, 0>>),
     MkTree(<<Txt(<<"a", SP, SP, "b">>)>>, <<0>>),
     DocLink}

ThreadRules == defineCommonMarkRules(NewRules)

\* the tables of thread i's collapsed tree, keyed by handle
HandlesOf(i, collapsed) ==
    [engaged |-> TRUE,
     text |-> [h \in {<<i, n>> : n \in DOMAIN collapsed.textReplacements}
                  |-> collapsed.textReplacements[h[2]]],
     skip |-> {<<i, n>> : n \in collapsed.nodesToOmit},
     dangling |-> FALSE]

\* what collectText finds in gCollapse for the nodes of thread i's tree
SeenBy(i, g) ==
    [engaged |-> g.engaged,
     text |-> [n \in {m \in 0..MaxNodes : <<i, m>> \in DOMAIN g.text}
                  |-> g.text[<<i, n>>]],
     skip |-> {m \in 0..MaxNodes : <<i, m>> \in g.skip}]

ThreadStart(doc) ==
    [pc |-> "start", doc |-> doc, kids |-> <<>>, output |-> <<>>,
     refs |-> <<>>, markdown |-> <<>>]

InitThreads ==
    /\ threads \in [ThreadIds -> {ThreadStart(doc) : doc \in ThreadDocs}]
    /\ gCollapse = ClearedContext
    /\ IdleCollapse
    /\ IdleCall
    /\ svc = NewService(DefaultOptions)
    /\ conv = NoConversion
    /\ log = EmptyLog
    /\ movedFromIsEmpty = TRUE
    /\ IdleRules

\* collapseWhitespace and setWhitespaceCollapseContext
SetContext(i) ==
    /\ threads[i].pc = "start"
    /\ gCollapse' = HandlesOf(i, collapseWhitespace(threads[i].doc, FALSE))
    /\ threads' = [threads EXCEPT ![i].pc = "reduce",
                                  ![i].kids = child_range(threads[i].doc, 0)]
    /\ UNCHANGED <<collapseVars, callVars, svc, conv, log, movedFromIsEmpty, ruleSet>>

\* one turn of processChildren's loop over the children of the root
ReduceChildWith(i, addition) ==
    /\ threads' = [threads EXCEPT
                     ![i].kids = Tail(@),
                     ![i].output = joinChunks(@, addition.out),
                     ![i].refs = addition.refs]
    /\ UNCHANGED <<collapseVars, callVars, serviceVars, ruleSet>>

ReduceChild(i) ==
    /\ threads[i].pc = "reduce"
    /\ threads[i].kids # <<>>
    /\ ReduceChildWith(i,
          processNode([t |-> threads[i].doc, options |-> DefaultOptions,
                       rules |-> ThreadRules, ctx |-> SeenBy(i, gCollapse)],
                      Head(threads[i].kids), threads[i].refs))

\* clearWhitespaceCollapseContext and the rest of runPipeline
ClearContext(i) ==
    /\ threads[i].pc = "reduce"
    /\ threads[i].kids = <<>>
    /\ gCollapse' = ClearedContext
    /\ threads' = [threads EXCEPT
                     ![i].pc = "done",
                     ![i].markdown =
                        afterReduction(ThreadRules, NoContext,
                            Ok(threads[i].output, threads[i].refs)).markdown]
    /\ UNCHANGED <<collapseVars, callVars, svc, conv, log, movedFromIsEmpty, ruleSet>>

NextThreads ==
    \E i \in ThreadIds :
        \/ SetContext(i)
        \/ ReduceChild(i)
        \/ ClearContext(i)

SpecThreads == InitThreads /\ [][NextThreads]_vars

\* C6: a conversion that ran next to another one on another service
\* returns the string it returns when it runs alone.
C6_Independent ==
    \A i \in ThreadIds :
        threads[i].pc = "done" =>
            threads[i].markdown =
                runPipeline(ThreadRules, DefaultOptions, threads[i].doc).markdown

---------------------------------------------------------------------------
(* processNode called on one node of a tree whose whitespace is collapsed,
   as processChildren calls it during a conversion *)

ReduceKinds ==
    {Elem("code"), Elem("span"), Txt(<<"*">>), Txt(<<"[", "a">>), Txt(<<SP>>)}

\* runPipeline reaches the reducer only when collapseWhitespace returned
ReduceDocs(maxN) ==
    {t \in DocsOver(ReduceKinds, maxN) : collapseWhitespace(t, FALSE).pc = "done"}

ReduceOptions ==
    {DefaultOptions, [DefaultOptions EXCEPT !.escapeFunction = "minimalEscape"]}

\* the arguments of the call: the tree, the node and the options
ReduceEnv ==
    [t |-> args[1], options |-> args[3], rules |-> defineCommonMarkRules(NewRules),
     ctx |-> ContextOf(collapseWhitespace(args[1], args[3].preformattedCode))]

InitReduce ==
    /\ \E t \in ReduceDocs(MaxNodes) : \E n \in 1..t.size : \E o \in ReduceOptions :
          args = <<t, n, o>>
    /\ ret = NotCalled
    /\ IdleCollapse
    /\ IdleService
    /\ IdleRules
    /\ IdleThreads

ProcessNode ==
    /\ ~ret.called
    /\ ret' = [called |-> TRUE,
               value |-> processNode(ReduceEnv, args[2], <<>>)]
    /\ UNCHANGED <<args, collapseVars, serviceVars, ruleSet, threads>>

NextReduce == ProcessNode

SpecReduce == InitReduce /\ [][NextReduce]_vars

\* the node k steps up from n, Null above the root
RECURSIVE NthParent(_, _, _)
NthParent(t, n, k) ==
    IF k = 0 \/ n = Null THEN n ELSE NthParent(t, parent(t, n), k - 1)

\* n is a <code> element or lies below one, at whatever depth
InsideCode(t, n) ==
    \E k \in 0..t.size :
        /\ NthParent(t, n, k) # Null
        /\ t.kind[NthParent(t, n, k)].type = "Element"
        /\ t.kind[NthParent(t, n, k)].tag = "code"

\* C11: the reducer emits the text of a text node that lies below a <code>
\* element, at any depth, as it is, without the escape function; the text of
\* any other text node that is not empty goes through the configured escape
\* function once.
C11_CodeTextVerbatim ==
    (ret.called /\ is_text_like(args[1], args[2])) =>
        LET text == getNodeText(args[1], args[2], ReduceEnv.ctx)
        IN /\ ret.value.exc = "none"
           /\ ret.value.out =
                IF text = <<>> \/ InsideCode(args[1], args[2]) THEN text
                ELSE escapeFunction(args[3].escapeFunction, text)

\* <code><span>*</span></code>: the asterisk two levels below the <code>
\* element came out without a backslash, under advancedEscape.
C11_Witness ==
    /\ ret.called
    /\ args[1].size = 3
    /\ args[1].kind[1] = Elem("code") /\ args[1].parent[1] = 0
    /\ args[1].kind[2] = Elem("span") /\ args[1].parent[2] = 1
    /\ args[1].kind[3] = Txt(<<"*">>) /\ args[1].parent[3] = 2
    /\ args[2] = 3
    /\ args[3].escapeFunction = "advancedEscape"
    /\ ret.value.out = <<"*">>
    /\ advancedEscape(<<"*">>) = <<BSL, "*">>

---------------------------------------------------------------------------
(* One conversion of a document with no-break spaces in its text and in
   the target of a link *)

NbspKinds ==
    {Elem("p"), Link(<<"u", ByteC2, ByteA0>>), Txt(<<"x">>),
     Txt(<<ByteC2, ByteA0>>), Txt(<<ByteC2>>), Txt(<<ByteA0, "x">>)}

InitNbsp ==
    /\ svc \in {NewService(DefaultOptions),
                NewService([DefaultOptions EXCEPT !.linkStyle = "referenced"])}
    /\ gCollapse = ClearedContext
    /\ conv = NoConversion
    /\ log = EmptyLog
    /\ movedFromIsEmpty = TRUE
    /\ IdleCollapse
    /\ IdleCall
    /\ IdleRules
    /\ IdleThreads

ConvertNbsp ==
    \E doc \in DocsOver(NbspKinds, MaxNodes) :
        /\ log.calls = 0
        /\ TurndownOn(doc)

NextNbsp == ConvertNbsp

SpecNbsp == InitNbsp /\ [][NextNbsp]_vars

\* the positions of s where the two bytes of a UTF-8 no-break space begin
NbspAt(s) == {i \in 1..(Len(s) - 1) : s[i] = ByteC2 /\ s[i + 1] = ByteA0}

\* the positions of s where the literal &nbsp; begins
EntityAt(s) ==
    {i \in 1..(Len(s) - 5) : SubSeq(s, i, i + 5) = NbspEntity}

\* C12: the string a conversion returns holds no UTF-8 no-break space (the
\* bytes C2 A0): those the reducer produced and those a rule's append
\* produced are all replaced by the literal &nbsp;.
C12_NoNbspBytes ==
    conv.kind = "returned" => NbspAt(conv.markdown) = {}

\* "x" and a link to a target with a no-break space, under the referenced
\* link style: the no-break space reached the output through the append of
\* the referenceLink rule only, and came out as &nbsp;.
C12_Witness ==
    /\ conv.kind = "returned"
    /\ conv.options.linkStyle = "referenced"
    /\ conv.doc.size = 3
    /\ conv.doc.kind[1] = Link(<<"u", ByteC2, ByteA0>>)
    /\ conv.doc.kind[2] = Txt(<<"x">>) /\ conv.doc.parent[2] = 1
    /\ conv.doc.kind[3] = Txt(<<ByteC2, ByteA0>>) /\ conv.doc.parent[3] = 0
    /\ Cardinality(EntityAt(conv.markdown)) = 2

---------------------------------------------------------------------------
(* collapseWhitespace run on a tree, and run again on the same tree once
   it has returned *)

WalkKinds ==
    {Elem("div"), Elem("span"), Elem("img"), Cmt,
     Txt(<<SP, "a">>), Txt(<<"a", SP>>), Txt(<<SP>>)}

\* the table and the omit set collapseWhitespace returns
ResultOf(w) ==
    [textReplacements |-> w.textReplacements, nodesToOmit |-> w.nodesToOmit]

InitWalk ==
    /\ tree \in TreesOver(Elem("div"), WalkKinds, MaxNodes)
    /\ treatCodeAsPre \in BOOLEAN
    /\ walk = WalkStart(tree, treatCodeAsPre)
    /\ IdleCall
    /\ IdleService
    /\ IdleRules
    /\ IdleThreads

\* the first call has returned: its result is kept and the second begins
CallAgain ==
    /\ walk.pc = "done"
    /\ ~ret.called
    /\ args' = <<tree, treatCodeAsPre>>
    /\ ret' = [called |-> TRUE, value |-> ResultOf(walk)]
    /\ walk' = WalkStart(tree, treatCodeAsPre)
    /\ UNCHANGED <<tree, treatCodeAsPre, serviceVars, ruleSet, threads>>

NextWalk == WalkStep \/ WalkFinish \/ CallAgain

SpecWalk == InitWalk /\ [][NextWalk]_vars

Recorded(w) == (DOMAIN w.textReplacements) \cup w.nodesToOmit

\* C14 as stated: every node identity collapseWhitespace records, in the
\* replacement map or in the omit set, is that of a text-like node (Text,
\* Whitespace or CData) of the tree being converted.
C14_OnlyTextLike ==
    \A n \in Recorded(walk) : n \in 1..tree.size /\ is_text_like(tree, n)

\* C14, amended: every node identity collapseWhitespace records is that of
\* a node below the root of the tree being converted; the keys of the
\* replacement map are text-like nodes, the omit set holds text-like nodes
\* and nodes that are neither text-like nor elements (comments); no element
\* is ever recorded.
C14_NoElementRecorded ==
    /\ \A n \in DOMAIN walk.textReplacements :
          n \in 1..tree.size /\ is_text_like(tree, n)
    /\ \A n \in walk.nodesToOmit :
          n \in 1..tree.size /\ ~is_element(tree, n)

\* The walk has returned on a tree with an element, a text it rewrote and a
\* comment: the text is in the map, the comment in the omit set.
C14_Witness ==
    /\ walk.pc = "done"
    /\ \E e, n, c \in 1..tree.size :
          /\ is_element(tree, e)
          /\ is_text_like(tree, n) /\ n \in DOMAIN walk.textReplacements
          /\ tree.kind[c] = Cmt /\ c \in walk.nodesToOmit

---------------------------------------------------------------------------
(* isBlank called on an element of a tree, inside a conversion (the
   collapse context engaged on the tree's table) or outside one *)

BlankKinds ==
    {Elem("span"), Elem("br"), Link(<<"u">>), Txt(<<SP>>), Txt(<<"x">>),
     Txt(<<ByteC2, ByteA0>>)}

\* the collapse context of the call: args is <<tree, node, engaged>>
BlankContext ==
    IF args[3] THEN ContextOf(collapseWhitespace(args[1], FALSE)) ELSE NoContext

InitBlank ==
    /\ \E t \in DocsOver(BlankKinds, MaxNodes) : \E n \in 1..t.size :
       \E engaged \in BOOLEAN :
          /\ is_element(t, n)
          /\ collapseWhitespace(t, FALSE).pc = "done"
          /\ args = <<t, n, engaged>>
    /\ ret = NotCalled
    /\ IdleCollapse
    /\ IdleService
    /\ IdleRules
    /\ IdleThreads

CallIsBlank ==
    /\ ~ret.called
    /\ ret' = [called |-> TRUE, value |-> isBlank(args[1], args[2], BlankContext)]
    /\ UNCHANGED <<args, collapseVars, serviceVars, ruleSet, threads>>

NextBlank == CallIsBlank

SpecBlank == InitBlank /\ [][NextBlank]_vars

\* the nodes below n, at any depth
DescendantsOf(t, n) ==
    {d \in 1..t.size : \E k \in 1..t.size : NthParent(t, d, k) = n}

\* the text nodes below n in document order, without those the engaged
\* collapse context omits, each with the text the context holds for it
RECURSIVE TextBelow(_, _, _, _)
TextBelow(t, n, ctx, from) ==
    IF from > t.size THEN <<>>
    ELSE (IF /\ from \in DescendantsOf(t, n)
             /\ is_text_like(t, from)
             /\ ~(ctx.engaged /\ from \in ctx.skip)
          THEN IF ctx.engaged /\ from \in DOMAIN ctx.text
               THEN ctx.text[from] ELSE t.kind[from].text
          ELSE <<>>) \o TextBelow(t, n, ctx, from + 1)

\* a text of the model's characters holds Unicode white space only
OnlyUnicodeWhitespace(s) ==
    \A i \in 1..Len(s) :
        \/ s[i] \in {SP, TAB, LF, FF, CR}
        \/ s[i] = ByteC2 /\ i < Len(s) /\ s[i + 1] = ByteA0
        \/ s[i] = ByteA0 /\ i > 1 /\ s[i - 1] = ByteC2

\* C15: isBlank is true of an element exactly when the element is not void
\* and not meaningful when blank, its collected text (read through the
\* collapse table, an omitted node counting as empty) holds Unicode white
\* space only, and no node below it, at any depth, is void or meaningful
\* when blank.
C15_IsBlank ==
    ret.called =>
        LET t == args[1]
            n == args[2]
        IN ret.value <=>
             /\ tag_name(t, n) \notin kVoidTags \cup kMeaningfulTags
             /\ OnlyUnicodeWhitespace(TextBelow(t, n, BlankContext, 1))
             /\ \A d \in DescendantsOf(t, n) :
                   ~(is_element(t, d) /\ tag_name(t, d) \in kVoidTags \cup kMeaningfulTags)

\* <span><span><br></span> </span> outside a conversion: all its text is
\* white space, and the <br> two levels down makes it not blank.
C15_Witness ==
    /\ ret.called
    /\ ~args[3]
    /\ args[1].size = 3 /\ args[2] = 1
    /\ args[1].kind[1] = Elem("span") /\ args[1].parent[1] = 0
    /\ args[1].kind[2] = Elem("span") /\ args[1].parent[2] = 1
    /\ args[1].kind[3] = Elem("br") /\ args[1].parent[3] = 2
    /\ ret.value = FALSE
    /\ isBlank(args[1], 2, NoContext) = FALSE

---------------------------------------------------------------------------
(* minimalEscape called on every short text *)

\* the longest text minimalEscape is called on
MaxEscapeLen == 4

EscapeAlphabet == {BSL, "[", "]", "a", "*"}

InitEscape ==
    /\ args \in {<<s>> : s \in StringsOver(EscapeAlphabet, MaxEscapeLen)}
    /\ ret = NotCalled
    /\ IdleCollapse
    /\ IdleService
    /\ IdleRules
    /\ IdleThreads

CallMinimalEscape ==
    /\ ~ret.called
    /\ ret' = [called |-> TRUE, value |-> minimalEscape(args[1])]
    /\ UNCHANGED <<args, collapseVars, serviceVars, ruleSet, threads>>

NextEscape == CallMinimalEscape

SpecEscape == InitEscape /\ [][NextEscape]_vars

\* the characters minimalEscape puts a backslash before
Escaped == {BSL, "[", "]"}

\* where the i-th character of s stands in the result: behind one more
\* character for every escaped character up to it
PlaceOf(s, i) == i + Cardinality({j \in 1..i : s[j] \in Escaped})

\* r without the backslashes that escape the character after them
RECURSIVE Unescape(_)
Unescape(r) ==
    IF r = <<>> THEN <<>>
    ELSE IF Head(r) = BSL /\ Len(r) >= 2
         THEN <<r[2]>> \o Unescape(Tail(Tail(r)))
         ELSE <<Head(r)>> \o Unescape(Tail(r))

\* s can be read in r from left to right, skipping characters of r
RECURSIVE IsSubsequence(_, _)
IsSubsequence(s, r) ==
    IF s = <<>> THEN TRUE
    ELSE IF r = <<>> THEN FALSE
    ELSE IF Head(s) = Head(r) THEN IsSubsequence(Tail(s), Tail(r))
    ELSE IsSubsequence(s, Tail(r))

\* C18: minimalEscape(s) is s with a backslash put immediately before each
\* backslash, '[' and ']' and nothing else changed: the result is as long as
\* s and its escaped characters together, every character of s stands at its
\* place with a backslash before it when it is an escaped one, s is a
\* subsequence of the result, and removing the inserted backslashes gives s.
C18_MinimalEscape ==
    (ret.called /\ Len(args) = 1) =>
        LET s == args[1]
            r == ret.value
        IN /\ Len(r) = PlaceOf(s, Len(s))
           /\ \A i \in 1..Len(s) :
                 /\ r[PlaceOf(s, i)] = s[i]
                 /\ s[i] \in Escaped => r[PlaceOf(s, i) - 1] = BSL
           /\ IsSubsequence(s, r)
           /\ Unescape(r) = s

\* minimalEscape was called on a\[] and returned a\\\[\]
C18_Witness ==
    /\ ret.called
    /\ args = <<<<"a", BSL, "[", "]">>>>
    /\ ret.value = <<"a", BSL, BSL, BSL, "[", BSL, "]">>

---------------------------------------------------------------------------
(* The element branch and the text branch of the walk, step by step *)

\* the walk is about to visit an element that is neither block, <br>, void
\* nor preformatted
AtOrdinaryInline ==
    /\ walk.pc = "loop"
    /\ LoopCondition(walk)
    /\ is_element(tree, walk.currentNode)
    /\ ~isBlock(tree, walk.currentNode)
    /\ tag_name(tree, walk.currentNode) # "br"
    /\ ~isVoid(tree, walk.currentNode)
    /\ ~isPreNode(tree, walk.currentNode, treatCodeAsPre)

\* C19, as claimed: the visit of an ordinary inline element clears
\* keep_leading, whether or not prev_text_node is set.
C19_InlineClearsKeepLeading ==
    [][AtOrdinaryInline => ~walk'.keepLeadingWhitespace]_vars

\* C19, amended: the visit of an ordinary inline element clears keep_leading
\* when prev_text_node is set, leaves keep_leading as it is when
\* prev_text_node is not set, and leaves prev_text_node as it is.
C19_InlineClearsAfterText ==
    [][AtOrdinaryInline =>
          /\ walk'.keepLeadingWhitespace =
                IF walk.prevTextNode # Null THEN FALSE
                ELSE walk.keepLeadingWhitespace
          /\ walk'.prevTextNode = walk.prevTextNode]_vars

\* The walk has just visited a <span> that follows an <img> with no text
\* between them: keep_leading is still set, and prev_text_node is not.
C19_Witness ==
    /\ walk.pc = "loop"
    /\ walk.prevNode # Null
    /\ is_element(tree, walk.prevNode)
    /\ tag_name(tree, walk.prevNode) = "span"
    /\ walk.prevTextNode = Null
    /\ walk.keepLeadingWhitespace
    /\ \E n \in 1..tree.size : tag_name(tree, n) = "img"

\* The walk has just visited a <span> with prev_text_node set: keep_leading
\* is clear.
C19_WitnessCleared ==
    /\ walk.pc = "loop"
    /\ walk.prevNode # Null
    /\ is_element(tree, walk.prevNode)
    /\ tag_name(tree, walk.prevNode) = "span"
    /\ walk.prevTextNode # Null
    /\ ~walk.keepLeadingWhitespace
    /\ \E n \in 1..tree.size : tag_name(tree, n) = "img"

\* the walk is about to visit a text-like node
AtText ==
    /\ walk.pc = "loop"
    /\ LoopCondition(walk)
    /\ is_text_like(tree, walk.currentNode)

\* the text of the node the walk is at, its whitespace runs collapsed
CollapsedHere == CollapseRuns(tree.kind[walk.currentNode].text)

\* the text node the walk is at follows a stored replacement that ends with
\* a space, and its own collapsed text begins with one
AtSpaceAfterSpace ==
    /\ AtText
    /\ walk.prevTextNode # Null
    /\ walk.prevTextNode \in DOMAIN walk.textReplacements
    /\ walk.textReplacements[walk.prevTextNode] # <<>>
    /\ Last(walk.textReplacements[walk.prevTextNode]) = SP
    /\ CollapsedHere # <<>>
    /\ Head(CollapsedHere) = SP

\* what the step made of the text node the walk was at is its collapsed
\* text without the leading space, a node left with no text being omitted
LostLeadingSpace ==
    IF Tail(CollapsedHere) = <<>>
    THEN /\ walk.currentNode \in walk'.nodesToOmit
         /\ walk.currentNode \notin DOMAIN walk'.textReplacements
    ELSE /\ walk.currentNode \in DOMAIN walk'.textReplacements
         /\ walk'.textReplacements[walk.currentNode] = Tail(CollapsedHere)

\* C20, as claimed: after a text-like node's non-empty replacement is stored,
\* prev_text_node is that node and keep_leading is false, and a text node
\* whose collapsed text begins with a space loses that space whenever the
\* stored replacement before it ends with a space.
C20_TextClearsKeepLeading ==
    /\ [][(AtText /\ walk.currentNode \in DOMAIN walk'.textReplacements) =>
             /\ walk'.prevTextNode = walk.currentNode
             /\ ~walk'.keepLeadingWhitespace]_vars
    /\ [][AtSpaceAfterSpace => LostLeadingSpace]_vars

\* C20, amended: after a text-like node's non-empty replacement is stored,
\* prev_text_node is that node and keep_leading is as it was, and a text node
\* whose collapsed text begins with a space loses that space whenever the
\* stored replacement before it ends with a space and keep_leading is false.
C20_TextKeepsKeepLeading ==
    /\ [][(AtText /\ walk.currentNode \in DOMAIN walk'.textReplacements) =>
             /\ walk'.prevTextNode = walk.currentNode
             /\ walk'.keepLeadingWhitespace = walk.keepLeadingWhitespace]_vars
    /\ [][(AtSpaceAfterSpace /\ ~walk.keepLeadingWhitespace) => LostLeadingSpace]_vars

\* The walk has just stored the replacement of a text node that follows an
\* <img>: prev_text_node is that node and keep_leading is still set.
C20_Witness ==
    /\ walk.pc = "loop"
    /\ walk.prevTextNode # Null
    /\ walk.prevTextNode = walk.prevNode
    /\ walk.prevTextNode \in DOMAIN walk.textReplacements
    /\ walk.keepLeadingWhitespace

\* The walk over <img>, "a ", " a" is done: the second text kept its space.
C20_WitnessKeptSpace ==
    /\ walk.pc = "done"
    /\ tree.size = 3
    /\ tag_name(tree, 1) = "img"
    /\ 2 \in DOMAIN walk.textReplacements /\ 3 \in DOMAIN walk.textReplacements
    /\ walk.textReplacements[2] = <<"a", SP>>
    /\ walk.textReplacements[3] = <<SP, "a">>

\* The walk is done: a text that followed a replacement ending with a space,
\* with keep_leading clear, lost its leading space.
C20_WitnessLostSpace ==
    /\ walk.pc = "done"
    /\ tree.size = 2
    /\ tree.kind[1] = Txt(<<"a", SP>>) /\ tree.kind[2] = Txt(<<SP, "a">>)
    /\ tree.parent = <<0, 0>>
    /\ walk.textReplacements[1] = <<"a", SP>>
    /\ walk.textReplacements[2] = <<"a">>

---------------------------------------------------------------------------
(* The walk over trees with block elements, <br> and texts that end with a
   space *)

StripKinds ==
    {Elem("div"), Elem("br"), Elem("span"), Elem("img"),
     Txt(<<SP, "a">>), Txt(<<"a", SP>>), Txt(<<SP>>)}

InitStrip ==
    /\ tree \in TreesOver(Elem("div"), StripKinds, MaxNodes)
    /\ treatCodeAsPre \in BOOLEAN
    /\ walk = WalkStart(tree, treatCodeAsPre)
    /\ IdleCall
    /\ IdleService
    /\ IdleRules
    /\ IdleThreads

SpecStrip == InitStrip /\ [][NextCollapse]_vars

\* the walk is about to visit a block element or a <br>
AtBlockOrBr ==
    /\ walk.pc = "loop"
    /\ LoopCondition(walk)
    /\ is_element(tree, walk.currentNode)
    /\ \/ isBlock(tree, walk.currentNode)
       \/ tag_name(tree, walk.currentNode) = "br"

\* the loop is over and the walk is about to return
AtWalkEnd == walk.pc = "loop" /\ ~LoopCondition(walk)

\* s without its trailing space, if it has one
WithoutTrailingSpace(s) == IF s # <<>> /\ Last(s) = SP THEN Front(s) ELSE s

\* the step took the trailing space off the replacement of the node that was
\* prev_text_node, omitted the node if that emptied it, and left a
\* replacement that does not end with a space
StrippedPrevText ==
    walk.prevTextNode # Null =>
        /\ walk.prevTextNode \in DOMAIN walk.textReplacements
        /\ walk'.textReplacements[walk.prevTextNode] =
              WithoutTrailingSpace(walk.textReplacements[walk.prevTextNode])
        /\ walk'.textReplacements[walk.prevTextNode] = <<>> =>
              walk.prevTextNode \in walk'.nodesToOmit
        /\ walk'.textReplacements[walk.prevTextNode] # <<>> =>
              Last(walk'.textReplacements[walk.prevTextNode]) # SP

\* C21: every visit of a block element or a <br> with prev_text_node set, on
\* entry and on return from its children, and the end of the walk, remove a
\* trailing space of prev_text_node's replacement and omit the node if that
\* empties it; a block or <br> visit also clears prev_text_node and
\* keep_leading.  A replacement is never written again once it is stored, but
\* for that removal, so in the returned table the replacement of a node that
\* was prev_text_node at such a point does not end with a space.
C21_TrailingSpaceStripped ==
    /\ [][AtBlockOrBr =>
             /\ StrippedPrevText
             /\ walk'.prevTextNode = Null
             /\ ~walk'.keepLeadingWhitespace]_vars
    /\ [][AtWalkEnd => (StrippedPrevText /\ walk'.pc = "done")]_vars
    /\ [][\A n \in DOMAIN walk.textReplacements :
             /\ n \in DOMAIN walk'.textReplacements
             /\ \/ walk'.textReplacements[n] = walk.textReplacements[n]
                \/ /\ n = walk.prevTextNode
                   /\ AtBlockOrBr \/ AtWalkEnd
                   /\ walk'.textReplacements[n] =
                         WithoutTrailingSpace(walk.textReplacements[n])]_vars

\* The walk over <img>, " ", <div> is at its end: the text kept its space
\* after the <img>, lost it at the <div>, and was omitted as that emptied it.
C21_Witness ==
    /\ walk.pc = "done"
    /\ tree.size = 3
    /\ tag_name(tree, 1) = "img" /\ tree.kind[2] = Txt(<<SP>>)
    /\ tag_name(tree, 3) = "div"
    /\ tree.parent = <<0, 0, 0>>
    /\ walk.textReplacements[2] = <<>>
    /\ 2 \in walk.nodesToOmit

\* The walk over <br>, <span>"a "</span> has returned: the text lost its
\* space at the end of the walk.
C21_WitnessAtEnd ==
    /\ walk.pc = "done"
    /\ tree.size = 3
    /\ tag_name(tree, 1) = "br" /\ tag_name(tree, 2) = "span"
    /\ tree.kind[3] = Txt(<<"a", SP>>)
    /\ tree.parent = <<0, 0, 2>>
    /\ walk.textReplacements[3] = <<"a">>

---------------------------------------------------------------------------
(* The walk over trees with preformatted elements, below a root that may be
   preformatted itself *)

PreKinds ==
    {Elem("pre"), Elem("code"), Elem("img"), Elem("br"),
     Txt(<<SP>>), Txt(<<"a", SP>>)}

PreRoots == {Elem("div"), Elem("code")}

InitPre ==
    /\ tree \in UNION {TreesOver(r, PreKinds, MaxNodes) : r \in PreRoots}
    /\ treatCodeAsPre \in BOOLEAN
    /\ walk = WalkStart(tree, treatCodeAsPre)
    /\ IdleCall
    /\ IdleService
    /\ IdleRules
    /\ IdleThreads

SpecPre == InitPre /\ [][NextCollapse]_vars

\* n lies below a preformatted element, at whatever depth
BelowPre(t, n, codeAsPre) ==
    \E k \in 1..(t.size + 1) :
        /\ NthParent(t, n, k) # Null
        /\ isPreNode(t, NthParent(t, n, k), codeAsPre)

\* the nodes the walk is at or has made an entry for
Touched(w) ==
    DOMAIN w.textReplacements \cup w.nodesToOmit
        \cup (IF w.pc = "loop" /\ LoopCondition(w) THEN {w.currentNode} ELSE {})

\* the walk never goes below a preformatted element, and a preformatted root
\* gives an empty table at once
NeverBelowPre ==
    /\ \A n \in Touched(walk) : ~BelowPre(tree, n, treatCodeAsPre)
    /\ isPreNode(tree, 0, treatCodeAsPre) =>
          /\ walk.pc = "done"
          /\ walk.textReplacements = EmptyMap
          /\ walk.nodesToOmit = {}

\* the walk is about to visit an element that is preformatted or void
AtPreOrVoid ==
    /\ walk.pc = "loop"
    /\ LoopCondition(walk)
    /\ \/ isPreNode(tree, walk.currentNode, treatCodeAsPre)
       \/ isVoid(tree, walk.currentNode)

\* C22, as claimed: the walk never descends into a preformatted element, a
\* preformatted root yields an empty table, and the visit of a preformatted
\* or void element that is not a block element clears prev_text_node and
\* sets keep_leading.
C22_PreSkippedVoidSetsKeep ==
    /\ []NeverBelowPre
    /\ [][(AtPreOrVoid /\ ~isBlock(tree, walk.currentNode)) =>
             /\ walk'.prevTextNode = Null
             /\ walk'.keepLeadingWhitespace]_vars

\* C22, amended: the walk never descends into a preformatted element, a
\* preformatted root yields an empty table, and the visit of a preformatted
\* or void element that is neither a block element nor a <br> clears
\* prev_text_node and sets keep_leading.
C22_PreSkippedVoidButBrSetsKeep ==
    /\ []NeverBelowPre
    /\ [][(/\ AtPreOrVoid
           /\ ~isBlock(tree, walk.currentNode)
           /\ tag_name(tree, walk.currentNode) # "br") =>
             /\ walk'.prevTextNode = Null
             /\ walk'.keepLeadingWhitespace]_vars

\* The walk with the preformatted-code flag on over <code>" "</code>, "a "
\* has returned: the text below <code> has no entry, the text after it has.
C22_Witness ==
    /\ walk.pc = "done"
    /\ treatCodeAsPre
    /\ tree.size = 3
    /\ tag_name(tree, 0) = "div"
    /\ tag_name(tree, 1) = "code"
    /\ tree.kind[2] = Txt(<<SP>>) /\ tree.kind[3] = Txt(<<"a", SP>>)
    /\ tree.parent = <<0, 1, 0>>
    /\ Touched(walk) = {3}
    /\ walk.textReplacements[3] = <<"a">>

\* The walk has just visited a <code> that is preformatted and not a block:
\* keep_leading is set and prev_text_node is not.
C22_WitnessAfterCode ==
    /\ walk.pc = "loop"
    /\ treatCodeAsPre
    /\ walk.prevNode # Null
    /\ tag_name(tree, walk.prevNode) = "code"
    /\ walk.keepLeadingWhitespace
    /\ walk.prevTextNode = Null
    /\ walk.textReplacements # EmptyMap

\* The walk was called on a <code> root with the flag on, a text below it.
C22_WitnessPreRoot ==
    /\ walk.pc = "done"
    /\ treatCodeAsPre
    /\ tag_name(tree, 0) = "code"
    /\ tree.size > 0
    /\ walk.textReplacements = EmptyMap

---------------------------------------------------------------------------
(* The fencedCodeBlock replacement called on <pre><code>text</code></pre> *)

\* the longest code text of a fenced block
MaxCodeLen == 5

Tilde == "~"
CodeAlphabet == {BackTick, Tilde, LF, "x"}

\* <pre><code>text</code></pre>, the <code> empty when the text is
PreCodeDoc(text) ==
    IF text = <<>> THEN MkTree(<<Elem("pre"), Elem("code")>>, <<0, 1>>)
    ELSE MkTree(<<Elem("pre"), Elem("code"), Txt(text)>>, <<0, 1, 2>>)

FenceOptions ==
    {[DefaultOptions EXCEPT !.codeBlockStyle = "fenced", !.fence = f] :
        f \in {<<BackTick, BackTick, BackTick>>, <<Tilde, Tilde, Tilde>>}}

InitFence ==
    /\ \E text \in StringsOver(CodeAlphabet, MaxCodeLen), options \in FenceOptions :
          args = <<PreCodeDoc(text), 1, options>>
    /\ ret = NotCalled
    /\ IdleCollapse
    /\ IdleService
    /\ IdleRules
    /\ IdleThreads

\* rule.replacement(content, node, options) of the fencedCodeBlock rule
CallFencedCodeBlock ==
    /\ ~ret.called
    /\ ret' = [called |-> TRUE,
               value |-> fencedCodeBlockReplacement(args[1], args[2], args[3], NoContext)]
    /\ UNCHANGED <<args, collapseVars, serviceVars, ruleSet, threads>>

NextFence == CallFencedCodeBlock

SpecFence == InitFence /\ [][NextFence]_vars

\* the text of the <code> of a document PreCodeDoc made
CodeTextOf(doc) == IF doc.size = 3 THEN doc.kind[3].text ELSE <<>>

\* the maximal runs of c in s, as <<first, last>> positions
MaximalRuns(s, c) ==
    {run \in (1..Len(s)) \X (1..Len(s)) :
        /\ run[1] <= run[2]
        /\ \A i \in run[1]..run[2] : s[i] = c
        /\ run[1] = 1 \/ s[run[1] - 1] # c
        /\ run[2] = Len(s) \/ s[run[2] + 1] # c}

RunLength(run) == run[2] - run[1] + 1

\* the runs of three or more
LongRuns(s, c) == {run \in MaximalRuns(s, c) : RunLength(run) >= 3}

\* those that begin a line
LongRunsAtLineStart(s, c) ==
    {run \in LongRuns(s, c) : run[1] = 1 \/ s[run[1] - 1] = LF}

\* the length of the fence a replacement opens with, behind its two newlines
FenceLengthOf(out, c) == CountLeading(SubSeq(out, 3, Len(out)), {c})

\* the length the fence must have to be longer than the runs and 3 at least
FenceLengthFor(runs) ==
    IF runs = {} THEN 3
    ELSE 1 + RunLength(CHOOSE run \in runs :
                          \A other \in runs : RunLength(other) <= RunLength(run))

\* C23, as claimed: the emitted fence is longer than every run of three or
\* more fence characters anywhere inside the code text; its length is 3, or
\* one more than the longest such run.
C23_FenceLongerThanAnyRun ==
    (ret.called /\ Len(args) = 3) =>
        LET code == CodeTextOf(args[1])
            c == Head(args[3].fence)
        IN /\ \A run \in LongRuns(code, c) :
                 FenceLengthOf(ret.value, c) > RunLength(run)
           /\ FenceLengthOf(ret.value, c) = FenceLengthFor(LongRuns(code, c))

\* C23, amended: the emitted fence is longer than every run of three or more
\* fence characters that begins a line of the code text; its length is 3, or
\* one more than the longest such run, so no line of the code begins with as
\* many fence characters as the fence has.
C23_FenceLongerThanLineStartRuns ==
    (ret.called /\ Len(args) = 3) =>
        LET code == CodeTextOf(args[1])
            c == Head(args[3].fence)
            lines == Lines(code)
        IN /\ \A run \in LongRunsAtLineStart(code, c) :
                 FenceLengthOf(ret.value, c) > RunLength(run)
           /\ FenceLengthOf(ret.value, c) = FenceLengthFor(LongRunsAtLineStart(code, c))
           /\ \A i \in 1..Len(lines) :
                 CountLeading(lines[i], {c}) < FenceLengthOf(ret.value, c)

\* The replacement of <pre><code>x, newline, three backticks</code></pre>: a
\* fence of four backticks.
C23_Witness ==
    /\ ret.called /\ Len(args) = 3
    /\ CodeTextOf(args[1]) = <<"x", LF, BackTick, BackTick, BackTick>>
    /\ Head(args[3].fence) = BackTick
    /\ ret.value = <<LF, LF, BackTick, BackTick, BackTick, BackTick, LF,
                     "x", LF, BackTick, BackTick, BackTick, LF,
                     BackTick, BackTick, BackTick, BackTick, LF, LF>>

---------------------------------------------------------------------------
(* The code rule's replacement called on every short content *)

\* the longest content of an inline code element
MaxContentLen == 8

ContentAlphabet == {BackTick, LF, "x"}

InitCode ==
    /\ args \in {<<content>> : content \in StringsOver(ContentAlphabet, MaxContentLen)}
    /\ ret = NotCalled
    /\ IdleCollapse
    /\ IdleService
    /\ IdleRules
    /\ IdleThreads

\* rule.replacement(content, node, options) of the code rule
CallCodeReplacement ==
    /\ ~ret.called
    /\ ret' = [called |-> TRUE, value |-> codeReplacement(args[1])]
    /\ UNCHANGED <<args, collapseVars, serviceVars, ruleSet, threads>>

NextCode == CallCodeReplacement

SpecCode == InitCode /\ [][NextCode]_vars

\* the content with every newline made a space
Spaced(s) == [i \in 1..Len(s) |-> IF s[i] = LF THEN SP ELSE s[i]]

\* the lengths of the maximal backtick runs of s
TickRunLengths(s) == {RunLength(run) : run \in MaximalRuns(s, BackTick)}

\* the backticks a replacement opens with
DelimiterLengthOf(out) == CountLeading(out, {BackTick})

\* out is body between two delimiters of n backticks
WrappedIn(out, body, n) == out = Repeat(BackTick, n) \o body \o Repeat(BackTick, n)

\* C24, as claimed: the code rule wraps non-empty content in a backtick
\* delimiter that is longer than every backtick run of the content.
C24_DelimiterLongerThanRuns ==
    (ret.called /\ Len(args) = 1 /\ args[1] # <<>>) =>
        /\ DelimiterLengthOf(ret.value) >= 1
        /\ \A r \in TickRunLengths(args[1]) : DelimiterLengthOf(ret.value) > r

\* C24, amended: the code rule wraps non-empty content in a backtick
\* delimiter whose length differs from the length of every backtick run of
\* the content.
C24_DelimiterDiffersFromRuns ==
    (ret.called /\ Len(args) = 1 /\ args[1] # <<>>) =>
        /\ DelimiterLengthOf(ret.value) >= 1
        /\ \A r \in TickRunLengths(args[1]) : DelimiterLengthOf(ret.value) # r
        /\ \/ WrappedIn(ret.value, Spaced(args[1]), DelimiterLengthOf(ret.value))
           \/ WrappedIn(ret.value, <<SP>> \o Spaced(args[1]) \o <<SP>>,
                        DelimiterLengthOf(ret.value))

\* The replacement of the content ```x````: one backtick on each side.
C24_Witness ==
    /\ ret.called
    /\ args = <<<<BackTick, BackTick, BackTick, "x",
                  BackTick, BackTick, BackTick, BackTick>>>>
    /\ ret.value = <<BackTick, SP, BackTick, BackTick, BackTick, "x",
                     BackTick, BackTick, BackTick, BackTick, SP, BackTick>>

\* C25: the delimiter of the code rule is the shortest backtick string, of
\* one backtick at least, whose length is the length of no maximal backtick
\* run of the content, and content that starts or ends with a backtick is
\* padded with one space on each side.
C25_ShortestFreeDelimiter ==
    (ret.called /\ Len(args) = 1 /\ args[1] # <<>>) =>
        LET n == DelimiterLengthOf(ret.value)
            runs == TickRunLengths(args[1])
        IN /\ n >= 1
           /\ n \notin runs
           /\ \A k \in 1..(n - 1) : k \in runs
           /\ (Head(args[1]) = BackTick \/ Last(args[1]) = BackTick) =>
                 WrappedIn(ret.value, <<SP>> \o Spaced(args[1]) \o <<SP>>, n)

\* The replacement of the content x```x`x: runs of three and of one, and two
\* backticks on each side.
C25_Witness ==
    /\ ret.called
    /\ args = <<<<"x", BackTick, BackTick, BackTick, "x", BackTick, "x">>>>
    /\ ret.value = <<BackTick, BackTick,
                     "x", BackTick, BackTick, BackTick, "x", BackTick, "x",
                     BackTick, BackTick>>

---------------------------------------------------------------------------
(* The listItem replacement called on the items of short lists *)

\* the most children of a list
MaxItems == 3

ListParents ==
    {Elem("ul"), Ol(<<>>), Ol(<<"4", "2">>), Ol(<<"x">>), Ol(TenDigits)}

ItemKinds == {Elem("li"), Elem("span"), Txt(<<SP>>)}

\* a list with the children kids below the root
ListDoc(list, kids) ==
    MkTree(<<list>> \o kids, <<0>> \o [i \in 1..Len(kids) |-> 1])

ListOptions == {DefaultOptions, [DefaultOptions EXCEPT !.bulletListMarker = <<"-">>]}

InitListItem ==
    /\ \E list \in ListParents, options \in ListOptions :
       \E kids \in UNION {[1..k -> ItemKinds] : k \in 1..MaxItems} :
       \E n \in 2..(Len(kids) + 1) :
          /\ kids[n - 1] = Elem("li")
          /\ args = <<ListDoc(list, kids), n, <<"y">>, options>>
    /\ ret = NotCalled
    /\ IdleCollapse
    /\ IdleService
    /\ IdleRules
    /\ IdleThreads

\* rule.replacement(content, node, options) of the listItem rule
CallListItemReplacement ==
    /\ ~ret.called
    /\ ret' = [called |-> TRUE,
               value |-> listItemReplacement(args[3], args[1], args[2], args[4])]
    /\ UNCHANGED <<args, collapseVars, serviceVars, ruleSet, threads>>

NextListItem == CallListItemReplacement

SpecListItem == InitListItem /\ [][NextListItem]_vars

\* the zero-based place of n among the element children of its parent
ElementIndex(t, n) ==
    Cardinality({c \in 1..t.size :
                    c < n /\ t.parent[c] = t.parent[n] /\ t.kind[c].type = "Element"})

\* out begins with the decimal numeral of number, a period and two spaces
BeginsWithNumber(out, number) ==
    \E k \in 1..Len(out) :
        /\ \A j \in 1..k : out[j] \in Digits
        /\ k > 1 => out[1] # "0"
        /\ DigitsValue(SubSeq(out, 1, k)) = number
        /\ Len(out) >= k + 3
        /\ SubSeq(out, k + 1, k + 3) = <<".", SP, SP>>

\* C26: the replacement of a list item below an <ol> begins with the decimal
\* number start + i, a period and two spaces, i being the item's zero-based
\* index among the element children of the <ol> and start the number in its
\* start attribute, 1 when there is none; below a <ul> it begins with the
\* bullet marker and three spaces.
C26_ListItemPrefix ==
    (ret.called /\ Len(args) = 4) =>
        LET t == args[1]
            n == args[2]
            list == t.kind[t.parent[n]]
            marker == args[4].bulletListMarker
        IN /\ (list.tag = "ol" /\ \A j \in 1..Len(list.start) : list.start[j] \in Digits) =>
                 /\ ret.value.exc = "none"
                 /\ BeginsWithNumber(ret.value.out,
                        (IF list.start = <<>> THEN 1 ELSE DigitsValue(list.start))
                            + ElementIndex(t, n))
           /\ list.tag = "ul" =>
                 /\ ret.value.exc = "none"
                 /\ Len(ret.value.out) >= Len(marker) + 3
                 /\ SubSeq(ret.value.out, 1, Len(marker) + 3) = marker \o <<SP, SP, SP>>

---------------------------------------------------------------------------
(* flankingWhitespace called on an inline element that holds one text and
   has a sibling, or none, on either side *)

MaxFlankLen == 3

NbspBytes == <<ByteC2, ByteA0>>

FlankUnits == {<<SP>>, NbspBytes, <<"x">>}

RECURSIVE FlattenUnits(_)
FlattenUnits(units) ==
    IF units = <<>> THEN <<>> ELSE Head(units) \o FlattenUnits(Tail(units))

\* the texts of one to maxLen characters, each a space, a no-break space
\* or a letter
FlankTexts(maxLen) ==
    {FlattenUnits(u) : u \in UNION {[1..k -> FlankUnits] : k \in 1..maxLen}}

FlankSiblingTexts == {<<"x", SP>>, <<SP, "x">>}

\* no sibling, a text, or an element that holds a text
FlankSiblings ==
    {<<>>}
    \cup {<<Txt(s)>> : s \in FlankSiblingTexts}
    \cup {<<Elem(tag), Txt(s)>> : tag \in {"span", "code", "div"},
                                  s \in FlankSiblingTexts}

FlankElements == {Elem("i"), Elem("code")}

\* left, then <elem>text</elem>, then right, below the body
FlankDoc(left, elem, text, right) ==
    LET kinds == left \o <<elem, Txt(text)>> \o right
        n == Len(left) + 1
    IN MkTree(kinds,
              [i \in 1..Len(kinds) |->
                  IF i < n THEN i - 1
                  ELSE IF i = n + 1 THEN n
                  ELSE IF i = n + 3 THEN n + 2
                  ELSE 0])

\* the collapse context of the call: args is
\* <<tree, node, preformattedCode, engaged>>
FlankContext ==
    IF args[4] THEN ContextOf(collapseWhitespace(args[1], args[3])) ELSE NoContext

InitFlank ==
    /\ \E left \in FlankSiblings, right \in FlankSiblings :
       \E elem \in FlankElements, text \in FlankTexts(MaxFlankLen) :
       \E preformattedCode \in BOOLEAN, engaged \in BOOLEAN :
          /\ collapseWhitespace(FlankDoc(left, elem, text, right),
                                preformattedCode).pc = "done"
          /\ args = <<FlankDoc(left, elem, text, right), Len(left) + 1,
                      preformattedCode, engaged>>
    /\ ret = NotCalled
    /\ IdleCollapse
    /\ IdleService
    /\ IdleRules
    /\ IdleThreads

CallFlankingWhitespace ==
    /\ ~ret.called
    /\ ret' = [called |-> TRUE,
               value |-> flankingWhitespace(args[1], args[2], args[3], FlankContext)]
    /\ UNCHANGED <<args, collapseVars, serviceVars, ruleSet, threads>>

NextFlank == CallFlankingWhitespace

SpecFlank == InitFlank /\ [][NextFlank]_vars

AsciiWhitespace == {SP, TAB, LF, FF, CR}

\* the run of Unicode white space s begins with, its no-break spaces
\* written &nbsp; and its ASCII white space left out unless keepAscii
RECURSIVE LeadingWhitespaceRun(_, _)
LeadingWhitespaceRun(s, keepAscii) ==
    IF s = <<>> THEN <<>>
    ELSE IF Head(s) \in AsciiWhitespace
         THEN (IF keepAscii THEN <<Head(s)>> ELSE <<>>)
                  \o LeadingWhitespaceRun(Tail(s), keepAscii)
    ELSE IF Len(s) >= 2 /\ s[1] = ByteC2 /\ s[2] = ByteA0
         THEN NbspEntity \o LeadingWhitespaceRun(SubSeq(s, 3, Len(s)), keepAscii)
    ELSE <<>>

\* the same for the run s ends with
RECURSIVE TrailingWhitespaceRun(_, _)
TrailingWhitespaceRun(s, keepAscii) ==
    IF s = <<>> THEN <<>>
    ELSE IF Last(s) \in AsciiWhitespace
         THEN TrailingWhitespaceRun(Front(s), keepAscii)
                  \o (IF keepAscii THEN <<Last(s)>> ELSE <<>>)
    ELSE IF Len(s) >= 2 /\ s[Len(s) - 1] = ByteC2 /\ s[Len(s)] = ByteA0
         THEN TrailingWhitespaceRun(SubSeq(s, 1, Len(s) - 2), keepAscii) \o NbspEntity
    ELSE <<>>

\* the sibling next to n on the given side, Null when there is none
SiblingOn(t, n, side) ==
    LET before == {c \in 1..t.size : c < n /\ t.parent[c] = t.parent[n]}
        after == {c \in 1..t.size : c > n /\ t.parent[c] = t.parent[n]}
    IN IF side = "Left"
       THEN (IF before = {} THEN Null ELSE SetMax(before))
       ELSE (IF after = {} THEN Null ELSE SetMin(after))

\* the collected text of a text node or an element, read through ctx
CollectedText(t, n, ctx) ==
    IF is_element(t, n) THEN TextBelow(t, n, ctx, 1)
    ELSE IF ctx.engaged /\ n \in ctx.skip THEN <<>>
    ELSE IF ctx.engaged /\ n \in DOMAIN ctx.text THEN ctx.text[n]
    ELSE t.kind[n].text

\* the sibling on the given side is a text node or an element that is not
\* a block, and its collected text has an ASCII space at the edge that
\* faces n
SiblingHasSpace(t, n, side, ctx) ==
    LET s == SiblingOn(t, n, side)
        text == CollectedText(t, s, ctx)
    IN /\ s # Null
       /\ is_text_like(t, s) \/ (is_element(t, s) /\ ~isBlock(t, s))
       /\ text # <<>>
       /\ IF side = "Left" THEN Last(text) = SP ELSE Head(text) = SP

\* the sibling on the given side is a code node
SiblingIsCode(t, n, side) ==
    SiblingOn(t, n, side) # Null /\ isCodeNode(t, SiblingOn(t, n, side))

\* flankingWhitespace was called on an element that is not a block and,
\* with preformatted code on, not a code node
FlankCase ==
    /\ ret.called
    /\ ~isBlock(args[1], args[2])
    /\ ~(args[3] /\ isCodeNode(args[1], args[2]))

\* C27 as stated: leading (trailing) is the whole run of Unicode white
\* space at the start (end) of the element's collected text, without its
\* ASCII white space when the sibling on that side is a text node or a
\* non-block element whose text has an ASCII space at the facing edge, and
\* with every no-break space written &nbsp;.
C27_FlankingWhitespace ==
    FlankCase =>
        LET t == args[1]
            n == args[2]
            text == CollectedText(t, n, FlankContext)
        IN /\ ret.value.leading =
                 LeadingWhitespaceRun(text, ~SiblingHasSpace(t, n, "Left", FlankContext))
           /\ ret.value.trailing =
                 TrailingWhitespaceRun(text, ~SiblingHasSpace(t, n, "Right", FlankContext))

\* C27, amended: the same, except that a text of white space only has an
\* empty trailing part, and that a sibling that is a code node does not
\* count while preformatted code is on.
C27_FlankingWhitespaceAmended ==
    FlankCase =>
        LET t == args[1]
            n == args[2]
            text == CollectedText(t, n, FlankContext)
            counts(side) == /\ SiblingHasSpace(t, n, side, FlankContext)
                            /\ ~(args[3] /\ SiblingIsCode(t, n, side))
        IN /\ ret.value.leading = LeadingWhitespaceRun(text, ~counts("Left"))
           /\ ret.value.trailing =
                 IF OnlyUnicodeWhitespace(text) THEN <<>>
                 ELSE TrailingWhitespaceRun(text, ~counts("Right"))

\* the ASCII space dropped after a sibling that ends with a space, the
\* no-break space kept
C27_Witness ==
    /\ FlankCase
    /\ SiblingHasSpace(args[1], args[2], "Left", FlankContext)
    /\ CollectedText(args[1], args[2], FlankContext) = <<SP>> \o NbspBytes \o <<"x">>
    /\ ret.value.leading = NbspEntity

\* a text of white space only, all of it leading
C27_WitnessWhitespaceOnly ==
    /\ FlankCase
    /\ CollectedText(args[1], args[2], FlankContext) = NbspBytes \o <<SP>>
    /\ ret.value = [leading |-> NbspEntity \o <<SP>>, trailing |-> <<>>]

\* a code sibling that ends with a space, preformatted code on: the
\* element keeps its leading space
C27_WitnessCodeSibling ==
    /\ FlankCase
    /\ args[3]
    /\ SiblingIsCode(args[1], args[2], "Left")
    /\ SiblingHasSpace(args[1], args[2], "Left", FlankContext)
    /\ ret.value.leading = <<SP>>

---------------------------------------------------------------------------
(* The walk over trees whose texts hold tabs, line ends and runs of
   spaces: the table it returns *)

TableKinds ==
    {Elem("div"), Elem("span"), Elem("img"),
     Txt(<<SP, LF>>), Txt(<<"a", TAB, CR>>), Txt(<<LF, "a", SP, SP, "b">>)}

InitTable ==
    /\ tree \in TreesOver(Elem("div"), TableKinds, MaxNodes)
    /\ treatCodeAsPre \in BOOLEAN
    /\ walk = WalkStart(tree, treatCodeAsPre)
    /\ IdleCall
    /\ IdleService
    /\ IdleRules
    /\ IdleThreads

SpecTable == InitTable /\ [][NextCollapse]_vars

\* s has no carriage return, line feed or tab, and no space next to a space
SingleSpaced(s) ==
    /\ \A i \in 1..Len(s) : s[i] \notin {CR, LF, TAB}
    /\ \A i \in 1..(Len(s) - 1) : ~(s[i] = SP /\ s[i + 1] = SP)

\* C30: in the table collapseWhitespace returns, no replacement holds a
\* carriage return, a line feed, a tab or two spaces in a row, and a text
\* node with an empty replacement is in the omit set; a text node that is
\* omitted when the walk visits it, its collapsed text being empty, has no
\* replacement then, and an omitted node without a replacement is never
\* given one.
C30_ReturnedTable ==
    /\ [](walk.pc = "done" =>
            \A n \in DOMAIN walk.textReplacements :
                /\ SingleSpaced(walk.textReplacements[n])
                /\ walk.textReplacements[n] = <<>> => n \in walk.nodesToOmit)
    /\ [][(AtText /\ walk.currentNode \in walk'.nodesToOmit)
             => walk.currentNode \notin DOMAIN walk'.textReplacements]_vars
    /\ [][\A n \in walk.nodesToOmit :
             n \notin DOMAIN walk.textReplacements
                 => n \notin DOMAIN walk'.textReplacements]_vars

\* the returned table of <img>, a text of a space and a line feed, <div>:
\* the text was stored as one space, which the <div> took off
C30_Witness ==
    /\ walk.pc = "done"
    /\ tree.size = 3
    /\ tree.kind[2] = Txt(<<SP, LF>>)
    /\ 2 \in DOMAIN walk.textReplacements
    /\ walk.textReplacements[2] = <<>>
    /\ 2 \in walk.nodesToOmit

\* a text omitted on its visit, with no replacement in the returned table
C30_WitnessOmittedOnVisit ==
    /\ walk.pc = "done"
    /\ \E n \in walk.nodesToOmit :
          /\ is_text_like(tree, n)
          /\ n \notin DOMAIN walk.textReplacements

\* a text with a line feed and two spaces in a row, stored with one space
C30_WitnessCollapsed ==
    /\ walk.pc = "done"
    /\ \E n \in DOMAIN walk.textReplacements :
          /\ tree.kind[n].text = <<LF, "a", SP, SP, "b">>
          /\ walk.textReplacements[n] = <<"a", SP, "b">>

=============================================================================
